---- MODULE Spec2Model ----
(***************************************************************************)
(* Sol engine: the WebGL batching renderer (VertBuffer, TextureCache,      *)
(* WebGLRenderer) and the texture lifecycle (TextureFactory, Texture).     *)
(*                                                                         *)
(* The program state is threaded through the operators below as one record *)
(* s, so that the statements of a method keep their order:                 *)
(*   s.tex      the Texture objects (user textures and the cache's         *)
(*              temporary textures)                                        *)
(*   s.img      the Image and closure of each createTexture call           *)
(*   s.gpu      the WebGL context: active unit, handle bound on each unit, *)
(*              handles created (made) and not yet deleted (live)          *)
(*   s.factory  TextureFactory.glReturnTex / glReturnUnit                  *)
(*   s.cache    TextureCache: _pointer, _boundTextures, id, width, height  *)
(*   s.vb       VertBuffer: _offset and the written part of _vertData      *)
(*   s.draws, s.glCalls, s.pushed   what the running operation has done so   *)
(*              far: its draw calls, its gl.activeTexture and               *)
(*              gl.bindTexture calls, its pushQuad calls (observation only)*)
(***************************************************************************)
EXTENDS Integers, Sequences, FiniteSets, TLC

VARIABLES cfg, tex, img, gpu, factory, cache, vb, frame, lastOp, program,
          opts, loop, sm, assets, mvp, keyboard

vars == <<cfg, tex, img, gpu, factory, cache, vb, frame, lastOp, program,
          opts, loop, sm, assets, mvp, keyboard>>

\* The state outside the renderer's texture and vertex machinery.
others == <<opts, loop, sm, assets, keyboard>>

(***************************************************************************)
(* Bounds of the exploration.                                              *)
(***************************************************************************)
\* Texture objects createTexture may hand out in one run.
NumTex == 3
\* Largest effective texture unit count explored (the code allows 1..32).
MaxUnitsCap == 2
\* Largest number of whole quads the explored vertex capacities hold.
BufQuads == 2
\* Quads queued in one frame.
MaxFrameQuads == 3
\* Texture objects createTexture hands out in a run of the lifecycle.
NumLife == 2
\* The most sessions the game is started for.
MaxSessions == 2
\* The number of JSON files loaded in a run.
MaxFiles == 2
\* The longest list of assets a loader list key holds.
MaxListLen == 2
\* The longest shader source explored, in tokens.
TemplateLen == 5
\* The largest number of texture units a shader is parsed for.
MaxArms == 3

(***************************************************************************)
(* Program constants.                                                      *)
(***************************************************************************)
\* drawTexture's tint argument 0xFFFFFFFF, as the four bytes the Uint32
\* view stores.
TINT == <<255, 255, 255, 255>>
\* GfxManagerConfig: glMaxVerts is clamped to [MIN_VERTS, MAX_VERTS].
MIN_VERTS == 6
MAX_VERTS == 65536
\* GfxManagerConfig: glMaxTextures is clamped to [MIN_TEXTURES, MAX_TEXTURES].
MIN_TEXTURES == 1
MAX_TEXTURES == 32
\* GfxManagerConfig: the defaults of glMaxTextures and glMaxVerts.
DEFAULT_MAX_TEXTURES == 32
DEFAULT_MAX_VERTS == 16384

\* null, for WebGLTexture handles, and "no texture" for texture references.
Null == 0
NoTex == Null

Min(a, b) == IF a < b THEN a ELSE b
Max(a, b) == IF a > b THEN a ELSE b

\* Math.min(max, Math.max(min, value))
clamp(value, min, max) == Min(max, Max(min, value))

(***************************************************************************)
(* Numbers the code obtains by a floating point division are kept as the   *)
(* exact fraction <<numerator, denominator>>.                              *)
(***************************************************************************)
Div(n, d) == <<n, d>>
FracEq(f, n, d) == f[1] * d = n * f[2]
One == Div(1, 1)

(***************************************************************************)
(* Texture objects.  1..NumTex are the objects createTexture returns, in   *)
(* the order of the calls; TempTex(i) is TextureCache._tempTextures[i].    *)
(***************************************************************************)
Tex == 1..NumTex
TempTex(i) == NumTex + 1 + i
AllTex == 1..(NumTex + MaxUnitsCap)

\* new Texture()
NewTexture ==
    [width |-> 1, height |-> 1, loaded |-> FALSE, missing |-> FALSE,
     glTex |-> Null, glBound |-> FALSE, glUnit |-> 0,
     canvasImg |-> "null", canvasCropScaleX |-> One, canvasCropScaleY |-> One]

\* The image a source decodes to: a fetched image, or the built-in
\* placeholder imgSrc.missing (an 8x8 PNG).
GoodImage == [naturalWidth |-> 100, naturalHeight |-> 50]
MissingImage == [naturalWidth |-> 8, naturalHeight |-> 8]
Natural(src) == IF src = "missing" THEN MissingImage ELSE GoodImage

\* The Image of a createTexture call that has not been made yet.  errs
\* counts the runs of its error handler and dead tells that destroyTexture
\* has been called on its texture (observation only).
NoImage ==
    [st |-> "none", src |-> "none", w |-> 0, h |-> 0, bw |-> 0, bh |-> 0,
     errs |-> 0, dead |-> FALSE]

(***************************************************************************)
(* Configurations: the backend (gl: a WebGL context, or the 2D canvas),    *)
(* whether the host has ImageBitmap, the effective texture unit count and  *)
(* the vertex capacity.                                                    *)
(***************************************************************************)
Units == 0..(cfg.maxTextures - 1)

\* The glMaxVerts options explored: every value up to the first capacity
\* past BufQuads quads (values under MIN_VERTS and values that are no
\* multiple of 6 included), and one value over MAX_VERTS.
BigVerts == 6 * BufQuads + 1
VertOptions == 0..BigVerts \cup {MAX_VERTS + 1}

\* glMaxVerts taken from the options without the clamp.
GfxManagerConfig_glMaxVerts_Unclamped(option) == option

\* GfxManagerConfig.glMaxVerts
GfxManagerConfig_glMaxVerts(option) == clamp(option, MIN_VERTS, MAX_VERTS)

\* GfxManagerConfig.glMaxTextures
GfxManagerConfig_glMaxTextures(option) == clamp(option, MIN_TEXTURES, MAX_TEXTURES)

\* getDefault(src, key, defaultValue): an option is a record telling
\* whether the key is in the options object, and its value.
getDefault(option, defaultValue) == IF option.has THEN option.val ELSE defaultValue

Absent == [has |-> FALSE, val |-> 0]
Given(v) == [has |-> TRUE, val |-> v]

\* The texture unit count the renderer uses whatever the host offers.
WebGLRenderer_maxTextures_Configured(host, maxTextures) == maxTextures

\* WebGLRenderer.constructor: the true number of maximum textures, from the
\* host's MAX_TEXTURE_IMAGE_UNITS and the configured glMaxTextures.
WebGLRenderer_maxTextures(host, maxTextures) == clamp(host, MIN_TEXTURES, maxTextures)

\* The options and host limit that give the configuration cfg in the
\* specifications that start after the renderer is constructed.
GameOptions ==
    [glMaxTextures |-> Given(cfg.maxTextures), glMaxVerts |-> Given(cfg.maxVerts),
     host |-> cfg.maxTextures, stage |-> "renderer"]

Configs ==
    { [gl |-> TRUE, bitmap |-> FALSE,
       maxTextures |-> GfxManagerConfig_glMaxTextures(n),
       maxVerts |-> GfxManagerConfig_glMaxVerts(v)] :
         n \in 0..MaxUnitsCap, v \in VertOptions }
    \cup
    { [gl |-> FALSE, bitmap |-> b, maxTextures |-> 1, maxVerts |-> MIN_VERTS] :
         b \in BOOLEAN }

(***************************************************************************)
(* The WebGL context.                                                      *)
(***************************************************************************)
\* gl.activeTexture(gl.TEXTURE0 + unit)
gl_activeTexture(s, unit) ==
    [s EXCEPT !.gpu.active = unit, !.glCalls = @ + 1]

\* gl.bindTexture(gl.TEXTURE_2D, handle): binds on the active unit.
gl_bindTexture(s, handle) ==
    [s EXCEPT !.gpu.units[s.gpu.active] = handle, !.glCalls = @ + 1]

\* gl.deleteTexture(handle): the handle is deleted and every unit of the
\* context it is bound on reverts to null.  Deleting null does nothing.
gl_deleteTexture(s, handle) ==
    IF handle = Null THEN s
    ELSE [s EXCEPT !.gpu.live = @ \ {handle},
                   !.gpu.units = [u \in DOMAIN @ |->
                                     IF @[u] = handle THEN Null ELSE @[u]]]

(***************************************************************************)
(* TextureFactory                                                          *)
(***************************************************************************)
\* gl.createTexture() returns a new handle.  glOpenTexture runs at most once
\* for a Texture object (in its onload, or in glCreatePixel), so the new
\* handle is named after the object it is created for.
gl_createTexture(s, t) == t

\* glOpenTexture(gl, texture): texture.glTex = gl.createTexture(), bound on
\* the active unit.
TextureFactory_glOpenTexture(s, t) ==
    LET h  == gl_createTexture(s, t)
        s1 == [s EXCEPT !.gpu.live = @ \cup {h}, !.gpu.made = @ \cup {h},
                        !.tex[t].glTex = h]
    IN  gl_bindTexture(s1, h)

\* glCloseTexture that does not bind the return handle.
TextureFactory_glCloseTexture_NoRebind(s, t) ==
    [s EXCEPT !.tex[t].loaded = TRUE]

\* glCloseTexture that clears the missing flag.
TextureFactory_glCloseTexture_ResetMissing(s, t) ==
    LET s1 == gl_bindTexture(s, s.factory.glReturnTex)
    IN  [s1 EXCEPT !.tex[t].loaded = TRUE, !.tex[t].missing = FALSE]

\* glCloseTexture(gl, texture)
TextureFactory_glCloseTexture(s, t) ==
    LET s1 == gl_bindTexture(s, s.factory.glReturnTex)
    IN  [s1 EXCEPT !.tex[t].loaded = TRUE]

\* glCreatePixel(gl, r, g, b, a), the new Texture being object t.
TextureFactory_glCreatePixel(s, t) ==
    LET s1 == [s EXCEPT !.tex[t].width = 1, !.tex[t].height = 1]
    IN  TextureFactory_glCloseTexture(TextureFactory_glOpenTexture(s1, t), t)

\* canvasCloseTexture(texture, img), img having the given width and height.
TextureFactory_canvasCloseTexture(s, t, kind, width, height) ==
    [s EXCEPT !.tex[t].canvasImg = kind,
              !.tex[t].canvasCropScaleX = Div(width, s.tex[t].width),
              !.tex[t].canvasCropScaleY = Div(height, s.tex[t].height),
              !.tex[t].loaded = TRUE]

\* The GPU part of destroyTexture that always binds the return handle.
TextureFactory_destroyGl_KeepReturn(s, t) ==
    LET h  == s.tex[t].glTex
        s1 == gl_activeTexture(s, s.tex[t].glUnit)
        s2 == gl_bindTexture(s1, Null)
        s3 == gl_deleteTexture(s2, h)
        s4 == gl_bindTexture(s3, s3.factory.glReturnTex)
    IN  gl_activeTexture(s4, s4.factory.glReturnUnit)

\* destroyTexture(gl, texture), lines 136-148: the GPU part.
TextureFactory_destroyGl(s, t) ==
    LET h  == s.tex[t].glTex
        s1 == gl_activeTexture(s, s.tex[t].glUnit)
        s2 == gl_bindTexture(s1, Null)
        s3 == gl_deleteTexture(s2, h)
        s4 == IF s3.factory.glReturnTex = h
              THEN [s3 EXCEPT !.factory.glReturnTex = Null]
              ELSE gl_bindTexture(s3, s3.factory.glReturnTex)
    IN  gl_activeTexture(s4, s4.factory.glReturnUnit)

\* The reset of the fields without glBound.
TextureFactory_resetFields_KeepBound(s, t) ==
    [s EXCEPT !.tex[t].width = 1, !.tex[t].height = 1,
              !.tex[t].glTex = Null,
              !.tex[t].glUnit = 0, !.tex[t].canvasImg = "null",
              !.tex[t].canvasCropScaleX = One,
              !.tex[t].canvasCropScaleY = One]

\* destroyTexture(gl, texture), lines 157-164: the reset of the fields.
TextureFactory_resetFields(s, t) ==
    [s EXCEPT !.tex[t].width = 1, !.tex[t].height = 1,
              !.tex[t].glTex = Null, !.tex[t].glBound = FALSE,
              !.tex[t].glUnit = 0, !.tex[t].canvasImg = "null",
              !.tex[t].canvasCropScaleX = One,
              !.tex[t].canvasCropScaleY = One]

\* destroyTexture(gl, texture)
TextureFactory_destroyTexture(s, t) ==
    LET s1 == [s EXCEPT !.tex[t].loaded = FALSE, !.tex[t].missing = FALSE]
        s2 == IF cfg.gl THEN TextureFactory_destroyGl(s1, t) ELSE s1
    IN  TextureFactory_resetFields(s2, t)

(***************************************************************************)
(* VertBuffer                                                              *)
(***************************************************************************)
\* pushVert(x, y, id, u, v, tint).  A write past the end of the typed array
\* is dropped by the host; the offset advances all the same.
VertBuffer_pushVert(s, x, y, id, u, v, tint) ==
    [s EXCEPT !.vb.vertData =
                  IF s.vb.offset < cfg.maxVerts
                  THEN Append(@, [x |-> x, y |-> y, id |-> id,
                                  u |-> u, v |-> v, tint |-> tint])
                  ELSE @,
              !.vb.offset = @ + 1]

(***************************************************************************)
(* The renderer's resolution and its model-view-projection matrix.  A      *)
(* number is <<n, d, r>>: the fraction n/d, rounded to single precision if *)
(* r is 1.  Of the 4x4 matrix the four entries that projection sets are    *)
(* kept: [0] (w), [5] (h), [12] (x) and [13] (y).                          *)
(***************************************************************************)
Double(n, d) == <<n, d, 0>>

PowerOfTwo(k) == \E i \in 0..16 : k = 2 ^ i

\* A Float32Array element set to q: q itself if single precision holds it
\* exactly, and the nearest single if not.
Float32Array_set(q) ==
    IF q[1] = 0 \/ (PowerOfTwo(IF q[1] < 0 THEN -q[1] ELSE q[1]) /\ PowerOfTwo(q[2]))
    THEN <<q[1], q[2], 0>>
    ELSE <<q[1], q[2], 1>>

\* The identity matrix of the MVPMatrix constructor and of setUm4fvID.
Identity ==
    [w |-> Float32Array_set(Double(1, 1)), h |-> Float32Array_set(Double(1, 1)),
     x |-> Float32Array_set(Double(0, 1)), y |-> Float32Array_set(Double(0, 1))]

\* new Renderer(type, canvas), new OrthoMatrix(), new MVPMatrix(program,
\* "uMVP"), program.setUm4fvID("uMVP"): the resolution, the dirty flag, the
\* projection matrix, the value to send, and the uniform of the program.
Renderer_constructor ==
    [width |-> 2, height |-> 2, dirty |-> FALSE,
     matP |-> [x |-> Double(0, 1), y |-> Double(0, 1),
               w |-> Double(1, 1), h |-> Double(1, 1)],
     value |-> Identity, uniform |-> Identity]

\* projection(width, height) that leaves the dirty flag alone.
MVPMatrix_projection_Clean(s, width, height) ==
    [s EXCEPT !.mvp.matP = [x |-> Double(-1, 1), y |-> Double(1, 1),
                            w |-> Double(2, width), h |-> Double(-2, height)]]

\* MVPMatrix.projection(width, height)
MVPMatrix_projection(s, width, height) ==
    [s EXCEPT !.mvp.matP = [x |-> Double(-1, 1), y |-> Double(1, 1),
                            w |-> Double(2, width), h |-> Double(-2, height)],
              !.mvp.dirty = TRUE]

\* MVPMatrix.update(): sets the value and sends it to the program if dirty.
MVPMatrix_update(s) ==
    IF s.mvp.dirty
    THEN LET value == [w |-> Float32Array_set(s.mvp.matP.w),
                       h |-> Float32Array_set(s.mvp.matP.h),
                       x |-> Float32Array_set(s.mvp.matP.x),
                       y |-> Float32Array_set(s.mvp.matP.y)]
         IN  [s EXCEPT !.mvp.value = value, !.mvp.uniform = value,
                       !.mvp.dirty = FALSE, !.uploads = @ + 1]
    ELSE s

\* Renderer.resize(width, height) and WebGLRenderer._onResize()
Renderer_resize(s, width, height) ==
    LET s1 == [s EXCEPT !.mvp.width = width, !.mvp.height = height]
    IN  IF cfg.gl THEN MVPMatrix_projection(s1, s1.mvp.width, s1.mvp.height) ELSE s1

\* gl.drawArrays(gl.TRIANGLES, 0, offset): the draw call, recorded with the
\* cache state and the program's matrix it is issued with.
gl_drawArrays(s) ==
    [verts   |-> SubSeq(s.vb.vertData, 1, Min(s.vb.offset, Len(s.vb.vertData))),
     count   |-> s.vb.offset,
     pointer |-> s.cache.pointer,
     bound   |-> {t \in AllTex : s.tex[t].glBound},
     units   |-> s.gpu.units,
     mvp     |-> s.mvp.uniform]

\* flush() that draws and does not reset the offset.
VertBuffer_flush_KeepOffset(s) ==
    [MVPMatrix_update(s) EXCEPT !.draws = Append(@, gl_drawArrays(MVPMatrix_update(s)))]

\* flush() that also takes every texture off its unit.
VertBuffer_flush_Unbind(s) ==
    [MVPMatrix_update(s) EXCEPT !.draws = Append(@, gl_drawArrays(MVPMatrix_update(s))),
              !.vb.offset = 0,
              !.vb.vertData = <<>>,
              !.tex = [t \in DOMAIN @ |-> [@[t] EXCEPT !.glBound = FALSE]],
              !.cache.pointer = 0]

\* flush(): uploads the written bytes, issues the draw call, resets the
\* offset.  The draw call is recorded with the cache state it is issued in.
VertBuffer_flush(s) ==
    [MVPMatrix_update(s) EXCEPT !.draws = Append(@, gl_drawArrays(MVPMatrix_update(s))),
              !.vb.offset = 0,
              !.vb.vertData = <<>>]

\* pushQuad that never flushes.
VertBuffer_pushQuad_NoFlush(s, l, t, r, b, id, cl, ct, cr, cb, tint) ==
    LET s1 == [s EXCEPT !.pushed = Append(@,
                   [l |-> l, t |-> t, r |-> r, b |-> b, id |-> id,
                    cl |-> cl, ct |-> ct, cr |-> cr, cb |-> cb, tint |-> tint])]
        s2 == VertBuffer_pushVert(s1, l, t, id, cl, ct, tint)
        s3 == VertBuffer_pushVert(s2, l, b, id, cl, cb, tint)
        s4 == VertBuffer_pushVert(s3, r, t, id, cr, ct, tint)
        s5 == VertBuffer_pushVert(s4, r, t, id, cr, ct, tint)
        s6 == VertBuffer_pushVert(s5, l, b, id, cl, cb, tint)
    IN  VertBuffer_pushVert(s6, r, b, id, cr, cb, tint)

\* pushQuad(l, t, r, b, id, cl, ct, cr, cb, tint)
VertBuffer_pushQuad(s, l, t, r, b, id, cl, ct, cr, cb, tint) ==
    LET s0 == [s EXCEPT !.pushed = Append(@,
                   [l |-> l, t |-> t, r |-> r, b |-> b, id |-> id,
                    cl |-> cl, ct |-> ct, cr |-> cr, cb |-> cb, tint |-> tint])]
        s1 == IF s0.vb.offset + 6 > cfg.maxVerts THEN VertBuffer_flush(s0) ELSE s0
        s2 == VertBuffer_pushVert(s1, l, t, id, cl, ct, tint)
        s3 == VertBuffer_pushVert(s2, l, b, id, cl, cb, tint)
        s4 == VertBuffer_pushVert(s3, r, t, id, cr, ct, tint)
        s5 == VertBuffer_pushVert(s4, r, t, id, cr, ct, tint)
        s6 == VertBuffer_pushVert(s5, l, b, id, cl, cb, tint)
    IN  VertBuffer_pushVert(s6, r, b, id, cr, cb, tint)

(***************************************************************************)
(* TextureCache                                                            *)
(***************************************************************************)
\* flush(): the loop over _boundTextures, lines 157-159.
RECURSIVE TextureCache_unbindAll(_, _)
TextureCache_unbindAll(s, i) ==
    IF i >= cfg.maxTextures THEN s
    ELSE TextureCache_unbindAll(
             [s EXCEPT !.tex[s.cache.boundTextures[i]].glBound = FALSE], i + 1)

\* flush() that resets the pointer and leaves the textures bound.
TextureCache_flush_NoUnbind(s) ==
    [VertBuffer_flush(s) EXCEPT !.cache.pointer = 0]

\* flush()
TextureCache_flush(s) ==
    LET s1 == VertBuffer_flush(s)
        s2 == TextureCache_unbindAll(s1, 0)
    IN  [s2 EXCEPT !.cache.pointer = 0]

\* applyTexture that binds a bound texture again.
TextureCache_applyBound_Rebind(s, t) ==
    LET s1 == gl_activeTexture(s, s.tex[t].glUnit)
        s2 == gl_bindTexture(s1, s1.tex[t].glTex)
    IN  [s2 EXCEPT !.cache.id = s.tex[t].glUnit,
                   !.cache.width = s.tex[t].width,
                   !.cache.height = s.tex[t].height]

\* applyTexture(texture), lines 130-135: the texture is bound already.
TextureCache_applyBound(s, t) ==
    [s EXCEPT !.cache.id = s.tex[t].glUnit,
              !.cache.width = s.tex[t].width,
              !.cache.height = s.tex[t].height]

\* applyTexture that flushes one texture late.
TextureCache_applyUnbound_LateFlush(s, t) ==
    LET s1 == IF s.cache.pointer > cfg.maxTextures
              THEN TextureCache_flush(s) ELSE s
        p  == s1.cache.pointer
        s2 == gl_activeTexture(s1, p)
        s3 == gl_bindTexture(s2, s2.tex[t].glTex)
    IN  [s3 EXCEPT !.factory.glReturnUnit = p,
                   !.tex[t].glUnit = p,
                   !.factory.glReturnTex = s3.tex[t].glTex,
                   !.cache.boundTextures[p] = t,
                   !.tex[t].glBound = TRUE,
                   !.cache.pointer = p + 1]

\* applyTexture that flushes one texture early.
TextureCache_applyUnbound_EarlyFlush(s, t) ==
    LET s1 == IF s.cache.pointer + 1 >= cfg.maxTextures
              THEN TextureCache_flush(s) ELSE s
        p  == s1.cache.pointer
        s2 == gl_activeTexture(s1, p)
        s3 == gl_bindTexture(s2, s2.tex[t].glTex)
    IN  [s3 EXCEPT !.factory.glReturnUnit = p,
                   !.tex[t].glUnit = p,
                   !.factory.glReturnTex = s3.tex[t].glTex,
                   !.cache.boundTextures[p] = t,
                   !.tex[t].glBound = TRUE,
                   !.cache.pointer = p + 1]

\* applyTexture that leaves the factory's return handle and unit alone.
TextureCache_applyUnbound_NoReturn(s, t) ==
    LET s1 == IF s.cache.pointer >= cfg.maxTextures
              THEN TextureCache_flush(s) ELSE s
        p  == s1.cache.pointer
        s2 == gl_activeTexture(s1, p)
        s3 == gl_bindTexture(s2, s2.tex[t].glTex)
    IN  [s3 EXCEPT !.tex[t].glUnit = p,
                   !.cache.boundTextures[p] = t,
                   !.tex[t].glBound = TRUE,
                   !.cache.pointer = p + 1]

\* applyTexture(texture), lines 137-148: the texture is bound to the next
\* unit, after a flush when no unit is left.
TextureCache_applyUnbound(s, t) ==
    LET s1 == IF s.cache.pointer >= cfg.maxTextures
              THEN TextureCache_flush(s) ELSE s
        p  == s1.cache.pointer
        s2 == gl_activeTexture(s1, p)
        s3 == gl_bindTexture(s2, s2.tex[t].glTex)
    IN  [s3 EXCEPT !.factory.glReturnUnit = p,
                   !.tex[t].glUnit = p,
                   !.factory.glReturnTex = s3.tex[t].glTex,
                   !.cache.boundTextures[p] = t,
                   !.tex[t].glBound = TRUE,
                   !.cache.pointer = p + 1]

\* applyTexture(texture)
TextureCache_applyTexture(s, t) ==
    IF s.tex[t].glBound THEN TextureCache_applyBound(s, t)
    ELSE TextureCache_applyUnbound(s, t)

\* The constructor's loop, lines 101-117.
RECURSIVE TextureCache_populate(_, _)
TextureCache_populate(s, i) ==
    IF i >= cfg.maxTextures THEN s
    ELSE LET t  == TempTex(i)
             s1 == TextureFactory_glCreatePixel(s, t)
             s2 == gl_activeTexture(s1, i)
             s3 == gl_bindTexture(s2, s2.tex[t].glTex)
             s4 == [s3 EXCEPT !.factory.glReturnUnit = i,
                              !.tex[t].glUnit = i,
                              !.factory.glReturnTex = s3.tex[t].glTex,
                              !.cache.boundTextures[i] = t,
                              !.tex[t].glBound = TRUE]
         IN  TextureCache_populate(s4, i + 1)

\* constructor(game, gl, buffer, maxTextures)
TextureCache_constructor(s) ==
    LET s1 == TextureCache_populate(s, 0)
        s2 == gl_activeTexture(s1, 0)
        h  == s2.tex[s2.cache.boundTextures[0]].glTex
        s3 == gl_bindTexture(s2, h)
    IN  [s3 EXCEPT !.factory.glReturnUnit = 0, !.factory.glReturnTex = h]

(***************************************************************************)
(* The shader program.  Shader source is a sequence of tokens: stretches   *)
(* of GLSL text, the two substitution markers, and what parseShader puts   *)
(* in their place.                                                         *)
(***************************************************************************)
Text == <<"text">>
MaxMarker == <<"%MAX_TEXTURES%">>
TexelMarker == <<"%GET_TEXEL%">>
Num(n) == <<"num", n>>
Else == <<"else">>
If(i) == <<"if", i>>
Sample(i) == <<"texture2D", i>>

\* mainFrag.fs.glsl: the array size marker and the texel marker, once each.
MainFrag == <<Text, MaxMarker, Text, TexelMarker, Text>>

\* String.prototype.replace with a string pattern: the first occurrence
\* only.
RECURSIVE String_replace(_, _, _)
String_replace(src, pattern, replacement) ==
    IF src = <<>> THEN <<>>
    ELSE IF Head(src) = pattern THEN replacement \o Tail(src)
    ELSE <<Head(src)>> \o String_replace(Tail(src), pattern, replacement)

\* The loop of parseShader, lines 97-107, from index i on.
RECURSIVE parseShader_inject(_, _)
parseShader_inject(i, max) ==
    IF i >= max THEN <<>>
    ELSE (IF i > 0 THEN <<Else>> ELSE <<>>)
         \o (IF i < max - 1 THEN <<If(i)>> ELSE <<>>)
         \o <<Sample(i)>>
         \o parseShader_inject(i + 1, max)

\* parseShader that guards every arm.
parseShader_AllGuarded(src, max) ==
    LET RECURSIVE inject(_)
        inject(i) == IF i >= max THEN <<>>
                     ELSE (IF i > 0 THEN <<Else>> ELSE <<>>)
                          \o <<If(i), Sample(i)>> \o inject(i + 1)
    IN  String_replace(String_replace(src, MaxMarker, <<Num(max)>>),
                       TexelMarker, inject(0))

\* parseShader(src, max, out, array, id, uv)
parseShader(src, max) ==
    String_replace(String_replace(src, MaxMarker, <<Num(max)>>),
                   TexelMarker, parseShader_inject(0, max))

\* No program: the canvas backend, or parseShader not called yet.
NoSource == <<>>

\* The fragment source of the program the WebGL renderer builds in its
\* constructor.
WebGLRenderer_program ==
    IF cfg.gl
    THEN [src |-> MainFrag, max |-> cfg.maxTextures,
          frag |-> parseShader(MainFrag, cfg.maxTextures), done |-> TRUE]
    ELSE [src |-> NoSource, max |-> cfg.maxTextures, frag |-> NoSource,
          done |-> FALSE]

(***************************************************************************)
(* WebGLRenderer                                                           *)
(***************************************************************************)
\* drawTexture that takes the crop size for the far corner.
WebGLRenderer_drawTexture_NoCropOffset(s, x, y, w, h, cx, cy, cw, ch) ==
    VertBuffer_pushQuad(s, x, y, w + x, h + y, s.cache.id,
                        Div(cx, s.cache.width), Div(cy, s.cache.height),
                        Div(cw, s.cache.width), Div(ch, s.cache.height),
                        TINT)

\* WebGLRenderer.drawTexture(x, y, w, h, cx, cy, cw, ch)
WebGLRenderer_drawTexture(s, x, y, w, h, cx, cy, cw, ch) ==
    VertBuffer_pushQuad(s, x, y, w + x, h + y, s.cache.id,
                        Div(cx, s.cache.width), Div(cy, s.cache.height),
                        Div(cw + cx, s.cache.width), Div(ch + cy, s.cache.height),
                        TINT)

(***************************************************************************)
(* The state record of the current state, and what an action leaves.       *)
(***************************************************************************)
Cur == [tex |-> tex, img |-> img, gpu |-> gpu, factory |-> factory,
        cache |-> cache, vb |-> vb, mvp |-> mvp, uploads |-> 0,
        draws |-> <<>>, glCalls |-> 0,
        pushed |-> <<>>]

Commit(s) ==
    /\ tex' = s.tex
    /\ img' = s.img
    /\ gpu' = s.gpu
    /\ factory' = s.factory
    /\ cache' = s.cache
    /\ vb' = s.vb
    /\ mvp' = s.mvp

\* No draw call.
NoDraw ==
    [verts |-> <<>>, count |-> 0, pointer |-> 0, bound |-> {}, units |-> <<>>,
     mvp |-> Identity]

\* The record of the operation that made the last step: its name, the
\* texture it was given, the number of its draw calls and of its
\* gl.activeTexture / gl.bindTexture calls, and its last draw call.
Op(name, t, s) ==
    [op |-> name, tex |-> t, draws |-> Len(s.draws), glCalls |-> s.glCalls,
     uploads |-> s.uploads,
     draw |-> IF s.draws = <<>> THEN NoDraw ELSE s.draws[Len(s.draws)]]

\* The record of the current frame: the cache pointer at onPreDraw, the
\* textures applied, the number of textures bound by applyTexture, of quads
\* queued, of vertices drawn and of draw calls (2 standing for two or more),
\* and the method that issued the last draw call.
NoFrame == [phase |-> "idle", ptr0 |-> 0, used |-> {}, misses |-> 0,
            queued |-> 0, drawn |-> 0, draws |-> 0, by |-> "none"]

RECURSIVE SumVerts(_)
SumVerts(draws) ==
    IF draws = <<>> THEN 0 ELSE Len(Head(draws).verts) + SumVerts(Tail(draws))

\* The frame's record after an operation of the frame.
FrameAfter(s, by, t, miss) ==
             [frame EXCEPT
                 !.used = @ \cup ({t} \ {NoTex}),
                 !.misses = Min(@ + (IF miss THEN 1 ELSE 0), cfg.maxTextures + 1),
                 !.queued = @ + Len(s.pushed),
                 !.drawn = @ + SumVerts(s.draws),
                 !.draws = Min(@ + Len(s.draws), 2),
                 !.by = IF s.draws = <<>> THEN @ ELSE by]

\* The state before the renderer is constructed.
Blank ==
    [tex |-> [t \in AllTex |-> NewTexture],
     img |-> [t \in Tex |-> NoImage],
     gpu |-> [active |-> 0, units |-> [u \in Units |-> Null],
              live |-> {}, made |-> {}],
     factory |-> [glReturnTex |-> Null, glReturnUnit |-> 0],
     cache |-> [pointer |-> 0, boundTextures |-> [u \in Units |-> NoTex],
                id |-> 0, width |-> 1, height |-> 1],
     vb |-> [offset |-> 0, vertData |-> <<>>],
     mvp |-> Renderer_constructor, uploads |-> 0,
     draws |-> <<>>, glCalls |-> 0, pushed |-> <<>>]

\* GfxManager.onStart: the renderer is constructed for the configuration.
Constructed == IF cfg.gl THEN TextureCache_constructor(Blank) ELSE Blank

InitOp ==
    [op |-> "init", tex |-> NoTex, draws |-> 0, glCalls |-> 0, uploads |-> 0,
     draw |-> NoDraw]

(***************************************************************************)
(* The texture lifecycle.  Image callbacks are tasks of the host's event   *)
(* loop: they run between frames, never inside one.  createTexture and     *)
(* destroyTexture are called by scene code at any time.                    *)
(***************************************************************************)
Created(t) == img[t].st # "none"

\* What createTexture is called with: the source and the expected size.
Sources == {"good", "bad"}
Sizes == {<<0, 0>>, <<20, 10>>}
Requests == {r \in Sources \X Sizes : r[1] = "bad" => r[2] = <<0, 0>>}

\* createTexture(gl, src, width, height), the new Texture being object t.
TextureFactory_createTexture(s, t, src, size) ==
    [s EXCEPT !.tex[t] = NewTexture,
              !.img[t] = [st |-> "loading", src |-> src,
                          w |-> size[1], h |-> size[2], bw |-> 0, bh |-> 0,
                          errs |-> 0, dead |-> FALSE]]

LifeTex == 1..NumLife

CreateTexture(src, size) ==
    /\ \E t \in LifeTex : ~Created(t)
    /\ LET t == CHOOSE x \in LifeTex :
                    ~Created(x) /\ \A y \in LifeTex : ~Created(y) => x <= y
           s == TextureFactory_createTexture(Cur, t, src, size)
       IN  Commit(s) /\ lastOp' = Op("createTexture", t, s)
    /\ UNCHANGED <<cfg, frame, program, others>>

\* img.onload, TextureFactory.js lines 65-109
TextureFactory_onload(s, t) ==
    LET i  == s.img[t]
        n  == Natural(i.src)
        s1 == [s EXCEPT !.tex[t].width = IF i.w # 0 THEN i.w ELSE n.naturalWidth,
                        !.tex[t].height = IF i.h # 0 THEN i.h ELSE n.naturalHeight]
    IN  IF cfg.gl
        THEN [TextureFactory_glCloseTexture(TextureFactory_glOpenTexture(s1, t), t)
                 EXCEPT !.img[t].st = "idle"]
        ELSE IF cfg.bitmap
        THEN [s1 EXCEPT !.img[t].st = "bitmap",
                        !.img[t].bw = s1.tex[t].width,
                        !.img[t].bh = s1.tex[t].height]
        ELSE [TextureFactory_canvasCloseTexture(s1, t, "image",
                                                n.naturalWidth, n.naturalHeight)
                 EXCEPT !.img[t].st = "idle"]

Onload(t) ==
    /\ frame.phase = "idle"
    /\ img[t].st = "loading"
    /\ img[t].src \in {"good", "missing"}
    /\ LET s == TextureFactory_onload(Cur, t)
       IN  Commit(s) /\ lastOp' = Op("onload", t, s)
    /\ UNCHANGED <<cfg, frame, program, others>>

\* img.onerror, TextureFactory.js lines 115-120
TextureFactory_onerror(s, t) ==
    [s EXCEPT !.tex[t].missing = TRUE, !.img[t].src = "missing",
              !.img[t].errs = @ + 1]

Onerror(t) ==
    /\ frame.phase = "idle"
    /\ img[t].st = "loading"
    /\ img[t].src = "bad"
    /\ LET s == TextureFactory_onerror(Cur, t)
       IN  Commit(s) /\ lastOp' = Op("onerror", t, s)
    /\ UNCHANGED <<cfg, frame, program, others>>

\* The createImageBitmap promise of onload settles, lines 85-105.
TextureFactory_bitmapSettled(s, t, fulfilled) ==
    LET i == s.img[t]
        n == Natural(i.src)
        s1 == IF fulfilled
              THEN TextureFactory_canvasCloseTexture(s, t, "bitmap", i.bw, i.bh)
              ELSE TextureFactory_canvasCloseTexture(s, t, "image",
                                                     n.naturalWidth, n.naturalHeight)
    IN  [s1 EXCEPT !.img[t].st = "idle"]

BitmapSettled(t, fulfilled) ==
    /\ frame.phase = "idle"
    /\ img[t].st = "bitmap"
    /\ LET s == TextureFactory_bitmapSettled(Cur, t, fulfilled)
       IN  Commit(s) /\ lastOp' = Op("bitmap", t, s)
    /\ UNCHANGED <<cfg, frame, program, others>>

\* TextureFactory.destroyTexture(gl, texture)
DestroyTexture(t) ==
    /\ Created(t)
    /\ LET s == TextureFactory_destroyTexture(Cur, t)
       IN  /\ Commit([s EXCEPT !.img[t].dead = TRUE])
           /\ lastOp' = Op("destroyTexture", t, s)
    /\ UNCHANGED <<cfg, frame, program, others>>

(***************************************************************************)
(* The frame: onPreDraw, the scene's applyTexture / drawTexture calls,     *)
(* onPostDraw.                                                             *)
(***************************************************************************)
\* What drawTexture is called with directly.
DrawArgs ==
    {[x |-> 0, y |-> 0, w |-> 100, h |-> 50,
      cx |-> 10, cy |-> 10, cw |-> 20, ch |-> 20]}

\* WebGLRenderer.onPreDraw(): clears the colour buffer; a frame begins.
OnPreDraw ==
    /\ cfg.gl
    /\ frame.phase = "idle"
    /\ frame' = [NoFrame EXCEPT !.phase = "drawing", !.ptr0 = cache.pointer]
    /\ lastOp' = Op("onPreDraw", NoTex, Cur)
    /\ UNCHANGED <<cfg, tex, img, gpu, factory, cache, vb, mvp, program, others>>

\* WebGLRenderer.applyTexture(texture)
ApplyTexture(t) ==
    /\ cfg.gl
    /\ frame.phase = "drawing"
    /\ tex[t].loaded
    /\ LET s == TextureCache_applyTexture(Cur, t)
       IN  /\ Commit(s)
           /\ frame' = FrameAfter(s, "TextureCache.flush", t, ~tex[t].glBound)
           /\ lastOp' = Op("applyTexture", t, s)
    /\ UNCHANGED <<cfg, program, others>>

\* WebGLRenderer.drawTexture(x, y, w, h, cx, cy, cw, ch).  Scene code draws
\* once it has applied a texture (TextureManager.draw applies the texture
\* before every drawTexture), which is when the pointer has left 0.
DrawTexture(a) ==
    /\ cfg.gl
    /\ frame.phase = "drawing"
    /\ cache.pointer > 0
    /\ frame.queued < MaxFrameQuads
    /\ LET s == WebGLRenderer_drawTexture(Cur, a.x, a.y, a.w, a.h,
                                          a.cx, a.cy, a.cw, a.ch)
       IN  /\ Commit(s)
           /\ frame' = FrameAfter(s, "VertBuffer.pushQuad", NoTex, FALSE)
           /\ lastOp' = Op("drawTexture", NoTex, s)
    /\ UNCHANGED <<cfg, program, others>>

\* WebGLRenderer.applyTexture(texture), called by the scene in a frame that
\* is not recorded.
SceneApply(t) ==
    /\ cfg.gl
    /\ tex[t].loaded
    /\ LET s == TextureCache_applyTexture(Cur, t)
       IN  Commit(s) /\ lastOp' = Op("applyTexture", t, s)
    /\ UNCHANGED <<cfg, frame, program, others>>

\* WebGLRenderer.onPostDraw(): the final flush of the frame.
OnPostDraw ==
    /\ cfg.gl
    /\ frame.phase = "drawing"
    /\ LET s == VertBuffer_flush(Cur)
       IN  /\ Commit(s)
           /\ frame' = [FrameAfter(s, "onPostDraw", NoTex, FALSE)
                        EXCEPT !.phase = "idle"]
           /\ lastOp' = Op("onPostDraw", NoTex, s)
    /\ UNCHANGED <<cfg, program, others>>

\* renderer.resize(width, height), called by GfxManager.onStart and by
\* user code.
Resize(size) ==
    /\ cfg.gl
    /\ LET s == Renderer_resize(Cur, size[1], size[2])
       IN  Commit(s) /\ lastOp' = Op("resize", NoTex, s)
    /\ UNCHANGED <<cfg, frame, program, others>>

(***************************************************************************)
(* The game loop, the scene manager and the asset dictionaries.  The       *)
(* managers are records threaded through the operators below.  Scene       *)
(* callbacks are user code: the callbacks a step delivers are appended to  *)
(* the scene manager's log, and a scene's onTick and onDraw may call the   *)
(* game's methods before they return.                                      *)
(***************************************************************************)
\* SceneManager._KEY_DEFAULT
DefaultKey == "__sol_default__"

\* The keys scene code uses, and a key that names no scene.
SceneKeys == {"a", "b"}
NoSceneKey == "main"

\* this._scenes = {}: the dictionary is a plain object, so the `in` operator
\* also finds the names it inherits from Object.prototype, of which the
\* model keeps one.  None of them holds a Scene.
ObjectPrototype == {"constructor"}

\* SceneManagerConfig: the main scene's key and the keys of the configured
\* scenes, in the order of the scenes object.
SceneConfigs ==
    [main : SceneKeys \cup {NoSceneKey}, scenes : {<<>>, <<"a">>, <<"a", "b">>}]
NoScenes == [main |-> NoSceneKey, scenes |-> <<>>]

\* What an observer of one key's scene instance has seen: no instance, an
\* instance created, an instance entered (active), or a callback delivered
\* out of order ("bad").
Observe(life, ev) ==
    CASE ev = "onCreate"  -> IF life = "none" THEN "created" ELSE "bad"
      [] ev = "onEnter"   -> IF life \in {"created", "entered"} THEN "entered" ELSE "bad"
      [] ev = "onExit"    -> IF life \in {"created", "entered"} THEN "created" ELSE "bad"
      [] ev = "onDestroy" -> IF life \in {"created", "entered"} THEN "none" ELSE "bad"
      [] OTHER            -> IF life = "entered" THEN "entered" ELSE "bad"

\* this._scenes[key].<ev>(this._game): the default scene is the Scene base,
\* whose callbacks do nothing.  Where the dictionary holds no scene of its
\* own under the key, the value has no such method and the call throws a
\* TypeError (threw), which ends the manager's method.
Scene_call(m, key, ev) ==
    IF key = DefaultKey THEN m
    ELSE IF key \notin m.scenes THEN [m EXCEPT !.threw = TRUE]
    ELSE [m EXCEPT !.log = Append(@, <<ev, key>>),
                   !.life[key] = Observe(@, ev)]

\* What a call found: the active key, the next key, whether a change was
\* pending, and the scenes that existed.
NoCall == [keyActive |-> DefaultKey, keyNext |-> DefaultKey, changing |-> FALSE,
           scenes |-> {}]

SceneManager_constructor(config) ==
    [config |-> config, keyActive |-> DefaultKey, keyNext |-> DefaultKey,
     changing |-> FALSE, scenes |-> {}, log |-> <<>>,
     life |-> [k \in SceneKeys |-> "none"], op |-> "none", key |-> DefaultKey,
     ret |-> FALSE, was |-> NoCall, threw |-> FALSE]

\* SceneManager.has(key): key != this._KEY_DEFAULT && key in this._scenes
SceneManager_has(m, key) ==
    key # DefaultKey /\ key \in m.scenes \cup ObjectPrototype

\* destroy(key) leaving the active scene and the pending change alone.
SceneManager_destroy_KeepActive(m, key) ==
    IF ~SceneManager_has(m, key) THEN [m EXCEPT !.ret = FALSE]
    ELSE [Scene_call(m, key, "onDestroy") EXCEPT !.scenes = @ \ {key}, !.ret = TRUE]

\* destroy(key) delivering onExit to the active scene before onDestroy.
SceneManager_destroy_Exit(m, key) ==
    IF ~SceneManager_has(m, key) THEN [m EXCEPT !.ret = FALSE]
    ELSE LET m0 == IF key = m.keyActive THEN Scene_call(m, key, "onExit") ELSE m
             m1 == Scene_call(m0, key, "onDestroy")
             m2 == IF key = m1.keyActive \/ (m1.changing /\ key = m1.keyNext)
                   THEN [m1 EXCEPT !.keyActive = DefaultKey,
                                   !.keyNext = DefaultKey, !.changing = FALSE]
                   ELSE m1
         IN  [m2 EXCEPT !.scenes = @ \ {key}, !.ret = TRUE]

\* SceneManager.destroy(key)
SceneManager_destroy(m, key) ==
    IF ~SceneManager_has(m, key) THEN [m EXCEPT !.ret = FALSE]
    ELSE LET m1 == Scene_call(m, key, "onDestroy")
             m2 == IF key = m1.keyActive \/ (m1.changing /\ key = m1.keyNext)
                   THEN [m1 EXCEPT !.keyActive = DefaultKey,
                                   !.keyNext = DefaultKey, !.changing = FALSE]
                   ELSE m1
         IN  IF m1.threw THEN m1
             ELSE [m2 EXCEPT !.scenes = @ \ {key}, !.ret = TRUE]

\* SceneManager.create(key, scene)
SceneManager_create(m, key) ==
    IF key = DefaultKey THEN [m EXCEPT !.ret = FALSE]
    ELSE LET m1 == SceneManager_destroy(m, key)
             m2 == [m1 EXCEPT !.scenes = @ \cup {key}]
         IN  IF m1.threw THEN m1
             ELSE [Scene_call(m2, key, "onCreate") EXCEPT !.ret = TRUE]

\* change(key) taking effect at once.
SceneManager_change_Now(m, key) ==
    IF ~SceneManager_has(m, key) THEN [m EXCEPT !.ret = FALSE]
    ELSE [Scene_call(Scene_call(m, m.keyActive, "onExit"), key, "onEnter")
             EXCEPT !.keyActive = key, !.ret = TRUE]

\* SceneManager.change(key)
SceneManager_change(m, key) ==
    IF ~SceneManager_has(m, key) THEN [m EXCEPT !.ret = FALSE]
    ELSE [m EXCEPT !.keyNext = key, !.changing = TRUE, !.ret = TRUE]

\* SceneManager.reload()
SceneManager_reload(m) == SceneManager_change(m, m.keyActive)

RECURSIVE SceneManager_createAll(_, _)
SceneManager_createAll(m, keys) ==
    IF keys = <<>> \/ m.threw THEN m
    ELSE SceneManager_createAll(SceneManager_create(m, Head(keys)), Tail(keys))

\* SceneManager.onStart()
SceneManager_onStart(m) ==
    LET m1 == SceneManager_createAll(m, m.config.scenes)
    IN  IF m1.threw THEN m1 ELSE SceneManager_change(m1, m.config.main)

\* SceneManager.onTick()
SceneManager_onTick(m) ==
    LET m1 == IF m.changing
              THEN LET e == Scene_call(m, m.keyActive, "onExit")
                       n == [e EXCEPT !.keyActive = e.keyNext, !.changing = FALSE]
                   IN  IF e.threw THEN e ELSE Scene_call(n, n.keyActive, "onEnter")
              ELSE m
    IN  IF m1.threw THEN m1 ELSE Scene_call(m1, m1.keyActive, "onTick")

\* SceneManager.onDraw()
SceneManager_onDraw(m) == Scene_call(m, m.keyActive, "onDraw")

\* onStop() destroying the active scene only.
SceneManager_onStop_ActiveOnly(m) == SceneManager_destroy(m, m.keyActive)

\* SceneManager.onStop(): destroy(key) for every key of the dictionary (the
\* default key included, which destroy refuses).
RECURSIVE SceneManager_onStop(_)
SceneManager_onStop(m) ==
    IF m.scenes = {} THEN SceneManager_destroy(m, DefaultKey)
    ELSE LET key == CHOOSE k \in m.scenes : TRUE
             m1 == SceneManager_destroy(m, key)
         IN  IF m1.threw THEN m1 ELSE SceneManager_onStop(m1)

\* The asset dictionaries: TextureManager._textures (key to Texture object),
\* JsonManager._json (keys) and Loader._assets (list key to assets).
TextureKeys == {"t"}
JsonKeys == {"j"}
ListKeys == {"l"}

\* No call of the loader on record.  n tells one call from the next.
NoLoaderCall ==
    [op |-> "none", listKey |-> "none", ret |-> Div(0, 1), threw |-> FALSE, n |-> 0]

\* files are the JsonFile objects in the order of their creation; json maps
\* a key to its file, lists a list key to its assets, <<"texture", t>> for
\* Texture t and <<"json", f>> for JsonFile f.
NoAssets ==
    [textures |-> [k \in TextureKeys |-> NoTex], json |-> [k \in {} |-> 0],
     lists |-> [l \in {} |-> <<>>], files |-> <<>>, call |-> NoLoaderCall]

\* Record r with field k set to v, k being in r's domain or not.
Put(r, k, v) == [x \in DOMAIN r \cup {k} |-> IF x = k THEN v ELSE r[x]]

\* delete r[k]
Delete(r, k) == [x \in DOMAIN r \ {k} |-> r[x]]

\* TextureManager.unload(key); g is the program state of the textures.
TextureManager_unload(a, g, key) ==
    IF a.textures[key] = NoTex THEN <<a, g>>
    ELSE <<[a EXCEPT !.textures[key] = NoTex],
           TextureFactory_destroyTexture(g, a.textures[key])>>

\* TextureManager.load(key, src, width, height), the new Texture being
\* object t.
TextureManager_load(a, g, key, t, src, size) ==
    LET u == TextureManager_unload(a, g, key)
    IN  <<[u[1] EXCEPT !.textures[key] = t],
          TextureFactory_createTexture(u[2], t, src, size)>>

\* TextureManager.onStop(): unloadAll()
RECURSIVE TextureManager_onStop(_, _)
TextureManager_onStop(a, g) ==
    IF \A k \in TextureKeys : a.textures[k] = NoTex THEN <<a, g>>
    ELSE LET key == CHOOSE k \in TextureKeys : a.textures[k] # NoTex
             u == TextureManager_unload(a, g, key)
         IN  TextureManager_onStop(u[1], u[2])

\* new JsonFile(): an Asset with data {}.  st is "pending" until the file's
\* HTTP request is done and what the request ended with from then on; sets
\* counts the assignments loaded = true (both for observation only).
NewJsonFile ==
    [loaded |-> FALSE, missing |-> FALSE, data |-> "{}", st |-> "pending",
     sets |-> 0]

\* JsonManager.create(src): the request is sent and the file returned.
JsonManager_create(a) == [a EXCEPT !.files = Append(@, NewJsonFile)]

\* What a request ends with: a 2xx status and a body that parses, a 2xx
\* status and a body that does not, or another status.
Outcomes == {"ok", "corrupt", "http"}

\* xhr.onreadystatechange at readyState DONE handling a failure like a
\* success.
JsonManager_onreadystatechange_NoMissing(a, f, outcome) ==
    [a EXCEPT !.files[f] = [@ EXCEPT !.data = "parsed", !.loaded = TRUE,
                                     !.sets = @ + 1, !.st = outcome]]

\* xhr.onreadystatechange at readyState DONE, JsonManager.js lines 62-82
JsonManager_onreadystatechange(a, f, outcome) ==
    LET a1 == IF outcome = "ok"
              THEN [a EXCEPT !.files[f].data = "parsed"]
              ELSE [a EXCEPT !.files[f].missing = TRUE]
    IN  [a1 EXCEPT !.files[f].loaded = TRUE, !.files[f].sets = @ + 1,
                   !.files[f].st = outcome]

\* JsonManager.has(key): key in this._json
JsonManager_has(a, key) == key \in DOMAIN a.json \cup ObjectPrototype

\* JsonManager.unload(key).  Under an inherited name the fields are written
\* on the inherited value and the delete finds no property of the
\* dictionary.
JsonManager_unload(a, key) ==
    IF ~JsonManager_has(a, key) \/ key \notin DOMAIN a.json THEN a
    ELSE [a EXCEPT !.files[a.json[key]] =
                       [@ EXCEPT !.loaded = FALSE, !.missing = FALSE, !.data = "{}"],
                   !.json = Delete(@, key)]

\* JsonManager.unload(key) that leaves the file's fields alone.
JsonManager_unload_KeepFields(a, key) ==
    IF ~JsonManager_has(a, key) \/ key \notin DOMAIN a.json THEN a
    ELSE [a EXCEPT !.json = Delete(@, key)]

\* JsonManager.load(key, src)
JsonManager_load(a, key) ==
    LET a1 == JsonManager_create(JsonManager_unload(a, key))
    IN  [a1 EXCEPT !.json = Put(@, key, Len(a1.files))]

\* JsonManager.onStop(): unloadAll()
RECURSIVE JsonManager_onStop(_)
JsonManager_onStop(a) ==
    IF DOMAIN a.json = {} THEN a
    ELSE JsonManager_onStop(JsonManager_unload(a, CHOOSE k \in DOMAIN a.json : TRUE))

\* Loader._allocate(listKey) followed by list.push(asset).  Under an
\* inherited name _allocate returns the inherited value, which has no push
\* method: the call throws a TypeError after the asset was loaded.
Loader_push(a, listKey, asset) ==
    IF listKey \notin DOMAIN a.lists /\ listKey \in ObjectPrototype
    THEN [a EXCEPT !.call.threw = TRUE]
    ELSE [a EXCEPT !.lists = Put(@, listKey,
                                 Append(IF listKey \in DOMAIN @ THEN @[listKey]
                                        ELSE <<>>,
                                        asset))]

\* asset.loaded, g being the program state of the textures.
Asset_loaded(a, g, asset) ==
    IF asset[1] = "texture" THEN g.tex[asset[2]].loaded
    ELSE a.files[asset[2]].loaded

\* progress(listKey) returning the fraction whatever it is.
Loader_progress_NoReset(a, g, listKey) ==
    IF listKey \notin DOMAIN a.lists /\ listKey \in ObjectPrototype
    THEN [a EXCEPT !.call.threw = TRUE]
    ELSE LET list == IF listKey \in DOMAIN a.lists THEN a.lists[listKey] ELSE <<>>
             a1 == [a EXCEPT !.lists = Put(@, listKey, list)]
             count == Cardinality({i \in DOMAIN list : Asset_loaded(a, g, list[i])})
         IN  IF list = <<>> THEN [a1 EXCEPT !.call.ret = One]
             ELSE [a1 EXCEPT !.call.ret = Div(count, Len(list))]

\* Loader.progress(listKey).  Under an inherited name the list is no
\* iterable and the for-of loop throws a TypeError.
Loader_progress(a, g, listKey) ==
    IF listKey \notin DOMAIN a.lists /\ listKey \in ObjectPrototype
    THEN [a EXCEPT !.call.threw = TRUE]
    ELSE LET list == IF listKey \in DOMAIN a.lists THEN a.lists[listKey] ELSE <<>>
             a1 == [a EXCEPT !.lists = Put(@, listKey, list)]
             count == Cardinality({i \in DOMAIN list : Asset_loaded(a, g, list[i])})
         IN  IF count >= Len(list)
             THEN [a1 EXCEPT !.lists[listKey] = <<>>, !.call.ret = One]
             ELSE [a1 EXCEPT !.call.ret = Div(count, Len(list))]

\* Loader.complete(listKey): progress(listKey) >= 1, kept in ret as 1 for
\* true and 0 for false.
Loader_complete(a, g, listKey) ==
    LET a1 == Loader_progress(a, g, listKey)
    IN  IF a1.call.threw THEN a1
        ELSE [a1 EXCEPT !.call.ret = IF @[1] >= @[2] THEN One ELSE Div(0, 1)]

\* The record of a call of a loader method.
LoaderCalled(a, op, listKey) ==
    [a EXCEPT !.call.op = op, !.call.listKey = listKey, !.call.n = 1 - assets.call.n]

\* The loader when a call begins.
Polled == [assets EXCEPT !.call = [NoLoaderCall EXCEPT !.n = assets.call.n]]

\* Loader.onStop()
Loader_onStop(a) == [a EXCEPT !.lists = [l \in DOMAIN @ |-> <<>>]]

(***************************************************************************)
(* KeyManager.  The dictionaries _keys, _keysNow and _keysLast map the key *)
(* codes that were assigned to booleans.  For observation only: phys is    *)
(* the last event of each key that reached the manager (TRUE for keydown), *)
(* now and last are phys at this tick's and at the previous tick's         *)
(* onPreTick, since the events after this tick's onPreTick, seen the       *)
(* events between the previous tick's onPreTick and this one's, and run    *)
(* the number of consecutive ticks the key was found pressed, 2 for two or *)
(* more.                                                                   *)
(***************************************************************************)
Codes == {"KeyA", "KeyB"}
NoCodes == [c \in {} |-> FALSE]

KeyManager_constructor(enabled) ==
    [enabled |-> enabled, active |-> FALSE, keys |-> NoCodes, keysNow |-> NoCodes,
     keysLast |-> NoCodes, phys |-> [c \in Codes |-> FALSE],
     now |-> [c \in Codes |-> FALSE], last |-> [c \in Codes |-> FALSE],
     since |-> [c \in Codes |-> {}], seen |-> [c \in Codes |-> {}],
     run |-> [c \in Codes |-> 0]]

\* !!dict[code]: an absent code reads undefined.
ToBoolean(dict, code) == code \in DOMAIN dict /\ dict[code]

\* Object.assign(target, source)
Object_assign(target, source) ==
    [c \in DOMAIN target \cup DOMAIN source |->
        IF c \in DOMAIN source THEN source[c] ELSE target[c]]

\* KeyManager.down(code), held(code), up(code)
KeyManager_down(k, code) ==
    ToBoolean(k.keysNow, code) /\ ~ToBoolean(k.keysLast, code)
KeyManager_held(k, code) == ToBoolean(k.keysNow, code)
KeyManager_up(k, code) ==
    ~ToBoolean(k.keysNow, code) /\ ToBoolean(k.keysLast, code)

\* KeyManager._onKeydown(event), _onKeyup(event)
KeyManager_onKeydown(k, code) == [k EXCEPT !.keys = Put(@, code, TRUE)]
KeyManager_onKeyup(k, code) == [k EXCEPT !.keys = Put(@, code, FALSE)]

\* KeyManager.onStart(): EventHandler.start() of both handlers.
KeyManager_onStart(k) == IF k.enabled THEN [k EXCEPT !.active = TRUE] ELSE k

\* onPreTick() that keeps no record of the previous tick.
KeyManager_onPreTick_NoLast(k) ==
    [k EXCEPT !.keysNow = Object_assign(k.keysNow, k.keys)]

\* KeyManager.onPreTick()
KeyManager_onPreTick(k) ==
    [k EXCEPT !.keysLast = Object_assign(k.keysLast, k.keysNow),
              !.keysNow = Object_assign(k.keysNow, k.keys)]

\* KeyManager.onStop(): both handlers stopped, every code of _keys false in
\* the three dictionaries.
KeyManager_onStop(k) ==
    LET cleared(dict) == Object_assign(dict, [c \in DOMAIN k.keys |-> FALSE])
    IN  [k EXCEPT !.active = FALSE, !.keys = cleared(@), !.keysNow = cleared(@),
                  !.keysLast = cleared(@)]

\* The observation of a tick.
Ticked(k) ==
    [k EXCEPT !.last = k.now, !.now = k.phys, !.seen = k.since,
              !.since = [c \in Codes |-> {}],
              !.run = [c \in Codes |-> IF k.phys[c] THEN Min(k.run[c] + 1, 2) ELSE 0]]

\* getCompatible(): the host has document, setInterval and
\* requestAnimationFrame.
getCompatible(l) == l.compatible

\* new Loop(game).  pc is the position of the loop's callbacks: "off" (no
\* callback pending or running), "wait" (an animation frame is requested),
\* "inTick" and "inDraw" (inside the active scene's onTick and onDraw).
\* op and ret are the last call of a Game method and its result, by the
\* method whose start is pending or was served last;
\* starts, stops and since count the runs of the start handlers and of the
\* stop handlers and the updates begun since stop() last returned true,
\* chains the chains of animation-frame steps that were begun and have not
\* ended (observation only).
Loop_constructor(compatible) ==
    [starting |-> FALSE, running |-> FALSE, stopping |-> FALSE, pc |-> "off",
     ready |-> FALSE, compatible |-> compatible, starts |-> 0, stops |-> 0,
     since |-> 0, op |-> "none", ret |-> FALSE, by |-> "none", chains |-> 0]

\* The loop in the specifications of the renderer: a session is running.
RunningLoop ==
    [Loop_constructor(TRUE) EXCEPT !.running = TRUE, !.ready = TRUE,
                                   !.pc = "wait", !.starts = 1, !.chains = 1]

\* start() that does not look at the pending start.
Loop_start_Again(l) ==
    IF (l.running /\ ~l.stopping) \/ ~getCompatible(l)
    THEN [l EXCEPT !.ret = FALSE]
    ELSE [l EXCEPT !.starting = TRUE, !.ret = TRUE]

\* start() on a loop that is stopping, refused.
Loop_start_NoRestart(l) ==
    IF l.starting \/ l.running \/ ~getCompatible(l)
    THEN [l EXCEPT !.ret = FALSE]
    ELSE [l EXCEPT !.starting = TRUE, !.ret = TRUE]

\* Loop.start()
Loop_start(l) ==
    IF l.starting \/ (l.running /\ ~l.stopping) \/ ~getCompatible(l)
    THEN [l EXCEPT !.ret = FALSE]
    ELSE [l EXCEPT !.starting = TRUE, !.ret = TRUE]

\* stop() that takes effect at once.
Loop_stop_Now(l) ==
    IF l.running /\ ~l.stopping
    THEN [l EXCEPT !.running = FALSE, !.since = 0, !.ret = TRUE]
    ELSE [l EXCEPT !.ret = FALSE]

\* stop() that withdraws a pending start.
Loop_stop_Cancel(l) ==
    IF l.running /\ ~l.stopping
    THEN [l EXCEPT !.stopping = TRUE, !.since = 0, !.ret = TRUE]
    ELSE [l EXCEPT !.starting = FALSE, !.ret = FALSE]

\* stop() that also clears the running flag.
Loop_stop_Halt(l) ==
    IF l.running /\ ~l.stopping
    THEN [l EXCEPT !.stopping = TRUE, !.running = FALSE, !.since = 0, !.ret = TRUE]
    ELSE [l EXCEPT !.ret = FALSE]

\* Loop.stop()
Loop_stop(l) ==
    IF l.running /\ ~l.stopping
    THEN [l EXCEPT !.stopping = TRUE, !.since = 0, !.ret = TRUE]
    ELSE [l EXCEPT !.ret = FALSE]

\* Loop.restart()
Loop_restart(l) == Loop_start(Loop_stop(l))

\* The record of a call of the scene manager's methods by user code: the
\* method, its key, and what the call found.
Called(m, op, key) ==
    [m EXCEPT !.op = op, !.key = key,
              !.was = [keyActive |-> sm.keyActive, keyNext |-> sm.keyNext,
                       changing |-> sm.changing, scenes |-> sm.scenes]]

\* The scene manager when another step begins: the log of the step's
\* callbacks is empty and no call is on record.
Fresh == [sm EXCEPT !.log = <<>>, !.op = "none", !.key = DefaultKey,
                    !.ret = FALSE, !.was = NoCall, !.threw = FALSE]

\* The record of a call of a Game method by user code.
LoopCalled(l, op) ==
    [l EXCEPT !.op = op,
              !.by = IF op # "stop" /\ l.ret THEN op ELSE @]

\* The loop when another step begins: no call is on record.
Going == [loop EXCEPT !.op = "none", !.ret = FALSE]

\* User code runs in event handlers between the loop's callbacks, and in
\* the callbacks of a user scene.
UserCode == loop.pc \in {"off", "wait"} \/ sm.keyActive # DefaultKey

gfxVars ==
    <<cfg, tex, img, gpu, factory, cache, vb, mvp, frame, lastOp, program, opts>>

\* Game.start()
GameStart ==
    /\ UserCode
    /\ loop.starts + (IF loop.starting THEN 1 ELSE 0) < MaxSessions
    /\ loop' = LoopCalled(Loop_start(loop), "start")
    /\ sm' = Fresh
    /\ UNCHANGED <<gfxVars, assets, keyboard>>

\* Game.stop()
GameStop ==
    /\ UserCode
    /\ loop' = LoopCalled(Loop_stop(loop), "stop")
    /\ sm' = Fresh
    /\ UNCHANGED <<gfxVars, assets, keyboard>>

\* Game.restart()
GameRestart ==
    /\ UserCode
    /\ loop.starts + (IF loop.starting THEN 1 ELSE 0) < MaxSessions
    /\ loop' = LoopCalled(Loop_restart(loop), "restart")
    /\ sm' = Fresh
    /\ UNCHANGED <<gfxVars, assets, keyboard>>

\* A call of a scene manager method by user code.
SceneCall(m) ==
    /\ UserCode
    /\ sm' = m
    /\ loop' = Going
    /\ UNCHANGED <<gfxVars, assets, keyboard>>

\* game.scene.create(key, scene)
SceneCreate(key) ==
    SceneCall(Called(SceneManager_create(Fresh, key), "create", key))

\* game.scene.change(key)
SceneChange(key) ==
    SceneCall(Called(SceneManager_change(Fresh, key), "change", key))

\* game.scene.reload()
SceneReload ==
    SceneCall(Called(SceneManager_reload(Fresh), "reload", sm.keyActive))

\* game.scene.destroy(key)
SceneDestroy(key) ==
    SceneCall(Called(SceneManager_destroy(Fresh, key), "destroy", key))

\* game.loader.loadTexture(listKey, key, src, width, height)
LoaderLoadTexture(listKey, key, src) ==
    /\ UserCode
    /\ \E t \in LifeTex : ~Created(t)
    /\ LET t == CHOOSE x \in LifeTex :
                    ~Created(x) /\ \A y \in LifeTex : ~Created(y) => x <= y
           u == TextureManager_load(Polled, Cur, key, t, src, <<0, 0>>)
       IN  /\ assets' = LoaderCalled(Loader_push(u[1], listKey, <<"texture", t>>),
                                     "loadTexture", listKey)
           /\ Commit(u[2])
    /\ loop' = Going
    /\ sm' = Fresh
    /\ UNCHANGED <<cfg, frame, lastOp, program, opts, keyboard>>

\* game.loader.loadJsonFile(listKey, key, src)
LoaderLoadJsonFile(listKey, key) ==
    /\ UserCode
    /\ listKey \in DOMAIN assets.lists => Len(assets.lists[listKey]) < MaxListLen
    /\ Len(assets.files) < MaxFiles
    /\ LET a == JsonManager_load(Polled, key)
       IN  assets' = LoaderCalled(Loader_push(a, listKey, <<"json", Len(a.files)>>),
                                  "loadJsonFile", listKey)
    /\ loop' = Going
    /\ sm' = Fresh
    /\ UNCHANGED <<gfxVars, keyboard>>

\* The HTTP request of JsonFile f reaches readyState DONE.
XhrDone(f, outcome) ==
    /\ f \in DOMAIN assets.files
    /\ assets.files[f].st = "pending"
    /\ assets' = JsonManager_onreadystatechange(assets, f, outcome)
    /\ UNCHANGED <<gfxVars, loop, sm, keyboard>>

\* game.json.unload(key)
JsonUnload(key) ==
    /\ UserCode
    /\ assets' = LoaderCalled(JsonManager_unload(Polled, key), "unload", "none")
    /\ UNCHANGED <<gfxVars, loop, sm, keyboard>>

\* game.loader.progress(listKey)
LoaderProgress(listKey) ==
    /\ UserCode
    /\ assets' = LoaderCalled(Loader_progress(Polled, Cur, listKey), "progress", listKey)
    /\ UNCHANGED <<gfxVars, loop, sm, keyboard>>

\* game.loader.complete(listKey)
LoaderComplete(listKey) ==
    /\ UserCode
    /\ assets' = LoaderCalled(Loader_complete(Polled, Cur, listKey), "complete", listKey)
    /\ UNCHANGED <<gfxVars, loop, sm, keyboard>>

\* A keydown event of the document reaches the manager's handler.  Events
\* are tasks of the host: they run between the loop's callbacks.
Keydown(code) ==
    /\ keyboard.active
    /\ loop.pc \in {"off", "wait"}
    /\ keyboard' = [KeyManager_onKeydown(keyboard, code) EXCEPT
                    !.phys[code] = TRUE, !.since[code] = @ \cup {"keydown"}]
    /\ UNCHANGED <<gfxVars, loop, sm, assets>>

\* A keyup event of the document reaches the manager's handler.
Keyup(code) ==
    /\ keyboard.active
    /\ loop.pc \in {"off", "wait"}
    /\ keyboard' = [KeyManager_onKeyup(keyboard, code) EXCEPT
                    !.phys[code] = FALSE, !.since[code] = @ \cup {"keyup"}]
    /\ UNCHANGED <<gfxVars, loop, sm, assets>>

\* document.readyState becomes "complete".
DocumentComplete ==
    /\ ~loop.ready
    /\ loop' = [Going EXCEPT !.ready = TRUE]
    /\ sm' = Fresh
    /\ UNCHANGED <<gfxVars, assets, keyboard>>

\* Loop._onUpdate() up to the active scene's onTick.  An exception of
\* scene.onTick() leaves _step() before it requests an animation frame.
Loop_onUpdate(l, m) ==
    LET m1 == SceneManager_onTick(m)
    IN  <<[l EXCEPT !.pc = IF m1.threw THEN "off" ELSE "inTick",
                    !.chains = IF m1.threw THEN @ - 1 ELSE @,
                    !.since = Min(@ + 1, 2), !.op = "none", !.ret = FALSE],
          m1>>

\* What a scene callback that runs inside the start or the stop handlers
\* (onCreate, onDestroy) calls of the game: nothing, or one of its methods.
CallbackCalls == {"none", "start", "stop", "restart"}

Loop_call(l, c) ==
    CASE c = "start"   -> LoopCalled(Loop_start(l), "start")
      [] c = "stop"    -> LoopCalled(Loop_stop(l), "stop")
      [] c = "restart" -> LoopCalled(Loop_restart(l), "restart")
      [] OTHER         -> l

\* The callback of start()'s interval, once the loop is not running and
\* the document is complete: the start handlers, in which a scene's
\* onCreate makes call c, then the first step.
IntervalFiresWith(c) ==
    /\ loop.starting
    /\ ~loop.running /\ loop.ready
    /\ c # "none" => sm.config.scenes # <<>>
    /\ LET l0 == [loop EXCEPT !.running = TRUE, !.stopping = FALSE,
                              !.starts = @ + 1, !.chains = @ + 1]
           l == [Loop_call(l0, c) EXCEPT !.starting = FALSE]
           m == SceneManager_onStart(Fresh)
           u == Loop_onUpdate(l, m)
       IN  loop' = u[1] /\ sm' = u[2]
    /\ keyboard' = Ticked(KeyManager_onPreTick(KeyManager_onStart(keyboard)))
    /\ UNCHANGED <<gfxVars, assets>>

IntervalFires ==
    /\ loop.starting
    /\ ~loop.running /\ loop.ready
    /\ LET l == [loop EXCEPT !.running = TRUE, !.stopping = FALSE,
                             !.starts = @ + 1, !.starting = FALSE,
                             !.chains = @ + 1]
           m == SceneManager_onStart(Fresh)
           u == Loop_onUpdate(l, m)
       IN  loop' = u[1] /\ sm' = u[2]
    /\ keyboard' = Ticked(KeyManager_onPreTick(KeyManager_onStart(keyboard)))
    /\ UNCHANGED <<gfxVars, assets>>

\* The animation frame callback: the next step begins.
AnimationFrame ==
    /\ loop.pc = "wait"
    /\ LET u == Loop_onUpdate(loop, Fresh)
       IN  loop' = u[1] /\ sm' = u[2]
    /\ keyboard' = Ticked(KeyManager_onPreTick(keyboard))
    /\ UNCHANGED <<gfxVars, assets>>

\* The active scene's onTick returns: gfx.onPreDraw(), scene.onDraw().
TickReturns ==
    /\ loop.pc = "inTick"
    /\ frame' = [NoFrame EXCEPT !.phase = "drawing"]
    /\ sm' = SceneManager_onDraw(Fresh)
    /\ loop' = [Going EXCEPT !.pc = IF sm'.threw THEN "off" ELSE "inDraw",
                             !.chains = IF sm'.threw THEN @ - 1 ELSE @]
    /\ UNCHANGED <<cfg, tex, img, gpu, factory, cache, vb, mvp, lastOp, program, opts,
                   assets, keyboard>>

\* Loop._onStop(): the stop handlers of the scene manager, the loader, the
\* texture manager and the JSON manager.
Loop_onStop(m, a, g) ==
    LET u == TextureManager_onStop(Loader_onStop(a), g)
    IN  <<SceneManager_onStop(m), JsonManager_onStop(u[1]), u[2]>>

\* The active scene's onDraw returns: gfx.onPostDraw(), then the rest of
\* Loop._step(): the stop handlers if the loop is stopping, the request of
\* the next animation frame if not.
DrawReturnsWith(c) ==
    /\ loop.pc = "inDraw"
    /\ frame' = NoFrame
    /\ c # "none" => loop.stopping /\ sm.scenes # {}
    /\ c \in {"start", "restart"} =>
           loop.starts + (IF loop.starting THEN 1 ELSE 0) < MaxSessions
    /\ IF loop.stopping
       THEN LET u == Loop_onStop(Fresh, assets, Cur)
            IN  /\ sm' = u[1]
                /\ assets' = u[2]
                /\ Commit(u[3])
                /\ keyboard' = KeyManager_onStop(keyboard)
                /\ loop' = [Loop_call(Going, c) EXCEPT
                                !.running = FALSE, !.stopping = FALSE,
                                !.stops = @ + 1, !.pc = "off", !.chains = @ - 1]
       ELSE /\ sm' = Fresh
            /\ loop' = [Going EXCEPT !.pc = "wait"]
            /\ UNCHANGED <<assets, tex, img, gpu, factory, cache, vb, mvp, keyboard>>
    /\ UNCHANGED <<cfg, lastOp, program, opts>>

DrawReturns ==
    /\ loop.pc = "inDraw"
    /\ frame' = NoFrame
    /\ IF loop.stopping
       THEN LET u == Loop_onStop(Fresh, assets, Cur)
            IN  /\ sm' = u[1]
                /\ assets' = u[2]
                /\ Commit(u[3])
                /\ keyboard' = KeyManager_onStop(keyboard)
                /\ loop' = [Going EXCEPT !.running = FALSE, !.stopping = FALSE,
                                         !.stops = @ + 1, !.pc = "off",
                                         !.chains = @ - 1]
       ELSE /\ sm' = Fresh
            /\ loop' = [Going EXCEPT !.pc = "wait"]
            /\ UNCHANGED <<assets, tex, img, gpu, factory, cache, vb, mvp, keyboard>>
    /\ UNCHANGED <<cfg, lastOp, program, opts>>

(***************************************************************************)
(* The game from its construction, on the 2D canvas backend.  SpecLoop is  *)
(* the loop under start, stop and restart; SpecLoopLive adds the host's    *)
(* scheduling: timers and animation frames keep firing, the document       *)
(* finishes loading, and scene callbacks return.  SpecScene is the scene   *)
(* manager under the calls of scene code, SpecStop the dictionaries of     *)
(* scenes and assets up to the stop handlers.                              *)
(***************************************************************************)
InitGame(compatible, ready, configs) ==
    /\ cfg = [gl |-> FALSE, bitmap |-> FALSE, maxTextures |-> MIN_TEXTURES,
              maxVerts |-> MIN_VERTS]
    /\ tex = Blank.tex
    /\ img = Blank.img
    /\ gpu = Blank.gpu
    /\ factory = Blank.factory
    /\ cache = Blank.cache
    /\ vb = Blank.vb
    /\ mvp = Blank.mvp
    /\ frame = NoFrame
    /\ lastOp = InitOp
    /\ program = WebGLRenderer_program
    /\ opts = GameOptions
    /\ loop \in {[Loop_constructor(c) EXCEPT !.ready = r] :
                    c \in compatible, r \in ready}
    /\ sm \in {SceneManager_constructor(c) : c \in configs}
    /\ assets = NoAssets
    /\ keyboard = KeyManager_constructor(TRUE)

Callbacks ==
    \/ IntervalFires
    \/ AnimationFrame
    \/ TickReturns
    \/ DrawReturns

InitLoop == InitGame(BOOLEAN, BOOLEAN, {[main |-> "a", scenes |-> <<"a">>]})

NextLoop ==
    \/ GameStart
    \/ GameStop
    \/ GameRestart
    \/ DocumentComplete
    \/ Callbacks

SpecLoop == InitLoop /\ [][NextLoop]_vars

HostSchedule ==
    /\ WF_vars(DocumentComplete)
    /\ WF_vars(IntervalFires)
    /\ WF_vars(AnimationFrame)
    /\ WF_vars(TickReturns)
    /\ WF_vars(DrawReturns)

SpecLoopLive == SpecLoop /\ HostSchedule

\* SpecLoopCalls is the loop with the game's methods called from outside,
\* from a scene's onTick and onDraw, and from the scene callbacks that run
\* inside the start and the stop handlers.
NextLoopCalls ==
    \/ GameStart
    \/ GameStop
    \/ GameRestart
    \/ DocumentComplete
    \/ \E c \in CallbackCalls : IntervalFiresWith(c)
    \/ AnimationFrame
    \/ TickReturns
    \/ \E c \in CallbackCalls : DrawReturnsWith(c)

SpecLoopCalls == InitLoop /\ [][NextLoopCalls]_vars

InitScene == InitGame({TRUE}, {TRUE}, SceneConfigs)

NextScene ==
    \/ GameStart
    \/ GameStop
    \/ \E key \in SceneKeys \cup {DefaultKey} : SceneCreate(key)
    \/ \E key \in SceneKeys \cup {DefaultKey} : SceneChange(key)
    \/ SceneReload
    \/ \E key \in SceneKeys \cup {DefaultKey} : SceneDestroy(key)
    \/ Callbacks

SpecScene == InitScene /\ [][NextScene]_vars

InitStop == InitGame({TRUE}, {TRUE}, {[main |-> "a", scenes |-> <<"a">>]})

NextStop ==
    \/ GameStart
    \/ GameStop
    \/ \E key \in SceneKeys : SceneCreate(key)
    \/ \E key \in SceneKeys : SceneChange(key)
    \/ \E l \in ListKeys, k \in TextureKeys : LoaderLoadTexture(l, k, "good")
    \/ \E l \in ListKeys, k \in JsonKeys : LoaderLoadJsonFile(l, k)
    \/ Callbacks

SpecStop == InitStop /\ [][NextStop]_vars

(***************************************************************************)
(* SpecLoader: the loader before the game is started, on the 2D canvas     *)
(* backend.  Scene code loads textures and JSON files into a list, under   *)
(* the same key more than once too, and polls the list; the host delivers  *)
(* the image events and ends the HTTP requests.  SpecLoaderLive adds that  *)
(* every load finishes and that the list keeps being polled.               *)
(***************************************************************************)
LoaderKeys == ListKeys \cup ObjectPrototype

InitLoader == InitGame({TRUE}, {TRUE}, {NoScenes})

NextLoader ==
    \/ \E l \in ListKeys, k \in TextureKeys, src \in Sources :
           LoaderLoadTexture(l, k, src)
    \/ \E l \in ListKeys, k \in JsonKeys : LoaderLoadJsonFile(l, k)
    \/ \E t \in LifeTex : Onload(t)
    \/ \E t \in LifeTex : Onerror(t)
    \/ \E f \in 1..MaxFiles, outcome \in Outcomes : XhrDone(f, outcome)
    \/ \E l \in LoaderKeys : LoaderProgress(l)
    \/ \E l \in LoaderKeys : LoaderComplete(l)

SpecLoader == InitLoader /\ [][NextLoader]_vars

LoadsFinish ==
    /\ \A t \in LifeTex : WF_vars(Onload(t)) /\ WF_vars(Onerror(t))
    /\ \A f \in 1..MaxFiles : WF_vars(\E outcome \in Outcomes : XhrDone(f, outcome))
    /\ \A l \in ListKeys : WF_vars(LoaderComplete(l))

SpecLoaderLive == SpecLoader /\ LoadsFinish

\* SpecKeyboard: one session of the game with the keyboard's events between
\* the steps of the loop.
InitKeyboard == InitGame({TRUE}, {TRUE}, {NoScenes})

NextKeyboard ==
    \/ GameStart
    \/ \E code \in Codes : Keydown(code)
    \/ \E code \in Codes : Keyup(code)
    \/ Callbacks

SpecKeyboard == InitKeyboard /\ [][NextKeyboard]_vars

\* SpecJson: JSON files loaded, unloaded and polled while their requests
\* end one way or another.
NextJson ==
    \/ \E l \in ListKeys, k \in JsonKeys : LoaderLoadJsonFile(l, k)
    \/ \E k \in JsonKeys : JsonUnload(k)
    \/ \E f \in 1..MaxFiles, outcome \in Outcomes : XhrDone(f, outcome)
    \/ \E l \in ListKeys : LoaderProgress(l)

SpecJson == InitLoader /\ [][NextJson]_vars

\* SpecKeys is the scene manager under calls with any key: the keys of
\* scenes, the default key and an inherited name of the dictionary.
AnyKeys == SceneKeys \cup {DefaultKey} \cup ObjectPrototype

NextKeys ==
    \/ GameStart
    \/ GameStop
    \/ \E key \in AnyKeys : SceneCreate(key)
    \/ \E key \in AnyKeys : SceneChange(key)
    \/ SceneReload
    \/ \E key \in AnyKeys : SceneDestroy(key)
    \/ Callbacks

SpecKeys == InitScene /\ [][NextKeys]_vars

\* The resolutions explored: the default one and one of powers of two.
DefaultSize == <<800, 600>>
Resolutions == {DefaultSize, <<512, 256>>}

\* GfxManager.onStart's resize to the configured resolution.
Started(s, size) == [Renderer_resize(s, size[1], size[2]) EXCEPT !.uploads = 0]

\* The renderer once the first frame has been drawn at the default
\* resolution: the matrix has been sent to the program.
FirstFrame(s) ==
    IF cfg.gl THEN [MVPMatrix_update(Started(s, DefaultSize)) EXCEPT !.uploads = 0]
    ELSE Started(s, DefaultSize)

StartWith(s, m) ==
    /\ tex = s.tex
    /\ img = s.img
    /\ gpu = s.gpu
    /\ factory = s.factory
    /\ cache = s.cache
    /\ vb = s.vb
    /\ mvp = m
    /\ frame = NoFrame
    /\ lastOp = InitOp
    /\ program = WebGLRenderer_program
    /\ opts = GameOptions
    /\ loop = RunningLoop
    /\ sm = SceneManager_constructor(NoScenes)
    /\ assets = NoAssets
    /\ keyboard = KeyManager_constructor(TRUE)

StartIn(s) == StartWith(s, FirstFrame(s).mvp)

(***************************************************************************)
(* Spec: the batching renderer.  The run starts with the renderer          *)
(* constructed and the textures of the scene created and loaded: texture 1 *)
(* from an image of 100x50, texture 2 from a source that fails (the 8x8    *)
(* placeholder), the others with the expected size 20x10.                  *)
(***************************************************************************)
SceneSource(t) == IF t = 2 THEN "bad" ELSE "good"
SceneSize(t) == IF t <= 2 THEN <<0, 0>> ELSE <<20, 10>>

RECURSIVE LoadScene(_, _)
LoadScene(s, t) ==
    IF t > NumTex THEN s
    ELSE LET s1 == TextureFactory_createTexture(s, t, SceneSource(t), SceneSize(t))
             s2 == IF SceneSource(t) = "bad" THEN TextureFactory_onerror(s1, t) ELSE s1
         IN  LoadScene(TextureFactory_onload(s2, t), t + 1)

GlConfigs == {c \in Configs : c.gl}

\* A buffer of one quad and one spare vertex.
SceneVerts == MIN_VERTS + 1

Init ==
    /\ cfg \in {c \in GlConfigs : c.maxVerts = SceneVerts}
    /\ StartIn([LoadScene(Constructed, 1) EXCEPT !.glCalls = 0])

Next ==
    \/ OnPreDraw
    \/ \E t \in Tex : ApplyTexture(t)
    \/ \E a \in DrawArgs : DrawTexture(a)
    \/ OnPostDraw

Spec == Init /\ [][Next]_vars

(***************************************************************************)
(* SpecTex: the texture lifecycle on both backends, with the cache.  The   *)
(* run starts with the renderer constructed and no texture created.        *)
(***************************************************************************)
InitTex ==
    /\ cfg \in {c \in Configs : c.maxVerts = MIN_VERTS}
    /\ StartIn(Constructed)

NextTex ==
    \/ \E r \in Requests : CreateTexture(r[1], r[2])
    \/ \E t \in Tex : Onload(t)
    \/ \E t \in Tex : Onerror(t)
    \/ \E t \in Tex, f \in BOOLEAN : BitmapSettled(t, f)
    \/ \E t \in Tex : DestroyTexture(t)
    \/ \E t \in Tex : SceneApply(t)

SpecTex == InitTex /\ [][NextTex]_vars

(***************************************************************************)
(* SpecLoad: textures that are created and never destroyed.  The host's    *)
(* event loop delivers every load and error event and settles every        *)
(* createImageBitmap promise, hence the weak fairness of the callbacks.     *)
(***************************************************************************)
NextLoad ==
    \/ \E r \in Requests : CreateTexture(r[1], r[2])
    \/ \E t \in Tex : Onload(t)
    \/ \E t \in Tex : Onerror(t)
    \/ \E t \in Tex, f \in BOOLEAN : BitmapSettled(t, f)
    \/ \E t \in Tex : SceneApply(t)

EventLoop ==
    \A t \in LifeTex :
        /\ WF_vars(Onload(t))
        /\ WF_vars(Onerror(t))
        /\ WF_vars(\E f \in BOOLEAN : BitmapSettled(t, f))

SpecLoad == InitTex /\ [][NextLoad]_vars /\ EventLoop

(***************************************************************************)
(* SpecShader: parseShader applied to every source of up to TemplateLen    *)
(* tokens, the fragment template among them, for 1..MaxArms textures.      *)
(***************************************************************************)
ShaderTokens == {Text, MaxMarker, TexelMarker}
Templates == UNION {[1..n -> ShaderTokens] : n \in 0..TemplateLen}

InitShader ==
    /\ cfg \in {c \in GlConfigs : /\ c.maxVerts = MIN_VERTS
                                  /\ c.maxTextures = MIN_TEXTURES}
    /\ tex = Constructed.tex
    /\ img = Constructed.img
    /\ gpu = Constructed.gpu
    /\ factory = Constructed.factory
    /\ cache = Constructed.cache
    /\ vb = Constructed.vb
    /\ mvp = FirstFrame(Constructed).mvp
    /\ frame = NoFrame
    /\ lastOp = InitOp
    /\ program \in {[src |-> t, max |-> n, frag |-> NoSource, done |-> FALSE] :
                       t \in Templates, n \in 1..MaxArms}
    /\ opts = GameOptions
    /\ loop = RunningLoop
    /\ sm = SceneManager_constructor(NoScenes)
    /\ assets = NoAssets
    /\ keyboard = KeyManager_constructor(TRUE)

\* parseShader(src, max, out, array, id, uv)
ParseShader ==
    /\ ~program.done
    /\ program' = [program EXCEPT !.frag = parseShader(program.src, program.max),
                                  !.done = TRUE]
    /\ UNCHANGED <<cfg, tex, img, gpu, factory, cache, vb, mvp, frame, lastOp, others>>

NextShader == ParseShader

SpecShader == InitShader /\ [][NextShader]_vars

(***************************************************************************)
(* SpecVB: the vertex buffer under every explored capacity, one texture    *)
(* unit, the scene's textures loaded.                                      *)
(***************************************************************************)
InitVB ==
    /\ cfg \in {c \in GlConfigs : c.maxTextures = MIN_TEXTURES}
    /\ StartIn([LoadScene(Constructed, 1) EXCEPT !.glCalls = 0])

SpecVB == InitVB /\ [][Next]_vars

(***************************************************************************)
(* SpecMVP: the frames of Spec with one texture unit and a buffer of one   *)
(* quad, from GfxManager.onStart's resize on, under resizes at any time.   *)
(***************************************************************************)
InitMVP ==
    /\ cfg \in {c \in GlConfigs : c.maxTextures = MIN_TEXTURES /\ c.maxVerts = MIN_VERTS}
    /\ \E size \in Resolutions :
          StartWith([LoadScene(Constructed, 1) EXCEPT !.glCalls = 0],
                    Started(Constructed, size).mvp)

NextMVP ==
    \/ Next
    \/ \E size \in Resolutions : Resize(size)

SpecMVP == InitMVP /\ [][NextMVP]_vars

(***************************************************************************)
(* SpecCfg: from the game's options to the renderer's effective limits.    *)
(* The GfxManagerConfig constructor clamps the options; the WebGLRenderer  *)
(* constructor then asks the host for its texture unit limit.              *)
(***************************************************************************)
\* The glMaxTextures options explored: absent, under the minimum, small
\* values, and one value over MAX_TEXTURES.
TextureOptions == {Absent} \cup {Given(n) : n \in 0..MaxUnitsCap \cup {MAX_TEXTURES + 1}}

\* The values of gl.getParameter(gl.MAX_TEXTURE_IMAGE_UNITS) explored.
HostUnits == 0..(MaxUnitsCap + 1) \cup {MAX_TEXTURES + 1}

InitCfg ==
    /\ opts \in [glMaxTextures : TextureOptions,
                 glMaxVerts : {Absent} \cup {Given(v) : v \in VertOptions},
                 host : HostUnits, stage : {"options"}]
    /\ cfg = [gl |-> TRUE, bitmap |-> FALSE, maxTextures |-> 0, maxVerts |-> 0]
    /\ tex = Blank.tex
    /\ img = Blank.img
    /\ gpu = Blank.gpu
    /\ factory = Blank.factory
    /\ cache = Blank.cache
    /\ vb = Blank.vb
    /\ mvp = Blank.mvp
    /\ frame = NoFrame
    /\ lastOp = InitOp
    /\ program = [src |-> NoSource, max |-> 0, frag |-> NoSource, done |-> FALSE]
    /\ loop = Loop_constructor(TRUE)
    /\ sm = SceneManager_constructor(NoScenes)
    /\ assets = NoAssets
    /\ keyboard = KeyManager_constructor(TRUE)

\* new GfxManagerConfig(options)
NewGfxManagerConfig ==
    /\ opts.stage = "options"
    /\ cfg' = [cfg EXCEPT
                 !.maxTextures = GfxManagerConfig_glMaxTextures(
                                     getDefault(opts.glMaxTextures, DEFAULT_MAX_TEXTURES)),
                 !.maxVerts = GfxManagerConfig_glMaxVerts(
                                  getDefault(opts.glMaxVerts, DEFAULT_MAX_VERTS))]
    /\ opts' = [opts EXCEPT !.stage = "config"]
    /\ UNCHANGED <<tex, img, gpu, factory, cache, vb, mvp, frame, lastOp, program,
                   loop, sm, assets, keyboard>>

\* new WebGLRenderer(game, canvas, gl, config.glMaxTextures, config.glMaxVerts):
\* the texture unit limit and the program built for it.
NewWebGLRenderer ==
    /\ opts.stage = "config"
    /\ cfg' = [cfg EXCEPT !.maxTextures = WebGLRenderer_maxTextures(opts.host, @)]
    /\ program' = [src |-> MainFrag, max |-> cfg'.maxTextures,
                   frag |-> parseShader(MainFrag, cfg'.maxTextures), done |-> TRUE]
    /\ opts' = [opts EXCEPT !.stage = "renderer"]
    /\ UNCHANGED <<tex, img, gpu, factory, cache, vb, mvp, frame, lastOp, loop, sm,
                   assets, keyboard>>

NextCfg == NewGfxManagerConfig \/ NewWebGLRenderer

SpecCfg == InitCfg /\ [][NextCfg]_vars

TypeOK ==
    /\ cfg \in Configs
    /\ frame.phase \in {"idle", "drawing"}
    /\ cache.pointer \in 0..cfg.maxTextures

(***************************************************************************)
(* The claims.                                                             *)
(***************************************************************************)
\* The texture the last operation was given.
OpTex == lastOp.tex

\* The quad drawTexture has just pushed: the last six vertices written.
LastQuad == SubSeq(vb.vertData, Len(vb.vertData) - 5, Len(vb.vertData))

\* C1: after applyTexture(t) returns for a loaded texture t, the cache's
\* applied-texture snapshot (id, width, height) is (t.glUnit, t.width,
\* t.height), whether t was bound already or has just been bound.
C1_AppliedSnapshot ==
    lastOp.op = "applyTexture" =>
        /\ cache.id = tex[OpTex].glUnit
        /\ cache.width = tex[OpTex].width
        /\ cache.height = tex[OpTex].height

C3_EveryQuadDrawnOnce ==
    /\ frame.drawn + vb.offset = 6 * frame.queued
    /\ Len(vb.vertData) = vb.offset
    /\ lastOp.draws >= 1 => lastOp.draw.count = Len(lastOp.draw.verts)
    /\ frame.phase = "idle" => vb.offset = 0

\* A frame ended whose quads went out in several draw calls.
C3_Witness ==
    /\ lastOp.op = "onPostDraw"
    /\ frame.queued = MaxFrameQuads
    /\ frame.draws = 2
    /\ frame.drawn = 6 * MaxFrameQuads

\* C4: pushQuad called with offset + 6 > maxVerts issues one draw call, for
\* exactly the vertices queued before the call, and returns with the buffer
\* holding the six vertices of the new quad.
C4_FlushBeforeOverflow ==
    [][ (lastOp'.op = "drawTexture" /\ vb.offset + 6 > cfg.maxVerts)
        => /\ lastOp'.draws = 1
           /\ lastOp'.draw.verts = vb.vertData
           /\ lastOp'.draw.count = vb.offset
           /\ vb'.offset = 6
           /\ Len(vb'.vertData) = 6
           /\ \A i \in 1..6 : vb'.vertData[i].id = cache.id ]_vars

\* pushQuad has just flushed two queued quads and holds the new one.
C4_Witness ==
    /\ lastOp.op = "drawTexture"
    /\ lastOp.draws = 1
    /\ lastOp.draw.count = 12
    /\ vb.offset = 6

\* C5: for every configured capacity the offset stays within 0..maxVerts and
\* is a multiple of 6, and every vertex counted by the offset is in the
\* buffer; the capacity itself is within [6, 65536].
C5_OffsetWithinCapacity ==
    /\ cfg.maxVerts \in MIN_VERTS..MAX_VERTS
    /\ vb.offset \in 0..cfg.maxVerts
    /\ vb.offset % 6 = 0
    /\ Len(vb.vertData) = vb.offset

\* A capacity that is no multiple of 6, filled as far as whole quads go.
C5_Witness ==
    /\ cfg.maxVerts % 6 # 0
    /\ vb.offset = 6 * BufQuads
    /\ vb.offset + 6 > cfg.maxVerts

\* C6: applyTexture of a texture that is not bound, called when the pointer
\* is maxUnits, makes exactly one flush and returns with the pointer at 1,
\* the texture bound on unit 0 and every texture of the bound array of
\* before the call unbound.
C6_ExhaustionFlush ==
    [][ ( /\ lastOp'.op = "applyTexture"
          /\ cache.pointer = cfg.maxTextures
          /\ ~tex[lastOp'.tex].glBound )
        => /\ lastOp'.draws = 1
           /\ cache'.pointer = 1
           /\ tex'[lastOp'.tex].glBound
           /\ tex'[lastOp'.tex].glUnit = 0
           /\ cache'.boundTextures[0] = lastOp'.tex
           /\ \A u \in Units :
                 cache.boundTextures[u] # lastOp'.tex
                    => ~tex'[cache.boundTextures[u]].glBound ]_vars

\* Two units, both taken by user textures, and a third texture applied.
C6_Witness ==
    /\ lastOp.op = "applyTexture"
    /\ lastOp.draws = 1
    /\ cfg.maxTextures = 2
    /\ cache.pointer = 1
    /\ cache.boundTextures[1] \in Tex
    /\ tex[OpTex].glBound

\* C7: applyTexture of a bound texture makes no gl.activeTexture or
\* gl.bindTexture call and no draw call, and changes nothing but the cache's
\* snapshot, which it sets from the texture.
C7_CacheHit ==
    [][ (lastOp'.op = "applyTexture" /\ tex[lastOp'.tex].glBound)
        => /\ lastOp'.glCalls = 0
           /\ lastOp'.draws = 0
           /\ UNCHANGED <<tex, img, gpu, factory, vb>>
           /\ cache'.pointer = cache.pointer
           /\ cache'.boundTextures = cache.boundTextures
           /\ cache'.id = tex[lastOp'.tex].glUnit
           /\ cache'.width = tex[lastOp'.tex].width
           /\ cache'.height = tex[lastOp'.tex].height ]_vars

\* A bound texture applied with quads in the buffer: the snapshot is the
\* 100x50 texture's.
C7_Witness ==
    /\ lastOp.op = "applyTexture"
    /\ lastOp.glCalls = 0
    /\ vb.offset > 0
    /\ cache.width = 100
    /\ cache.id = 1

\* C8: the draw call of TextureCache.flush is issued with the pointer and
\* every glBound as they were before the flush, and applyTexture never
\* binds a texture to a unit that a vertex waiting in the buffer names.
C8_DrawBeforeUnbind ==
    /\ (lastOp.op = "applyTexture" /\ lastOp.draws >= 1)
          => /\ lastOp.draw.pointer = cfg.maxTextures
             /\ \A u \in Units :
                   cache.boundTextures[u] # OpTex
                      => cache.boundTextures[u] \in lastOp.draw.bound
    /\ (lastOp.op = "applyTexture" /\ lastOp.glCalls > 0)
          => \A i \in 1..Len(vb.vertData) :
                 vb.vertData[i].id # tex[OpTex].glUnit

\* C9 as stated: with the snapshot at 100x50 the quad pushed by
\* drawTexture(0, 0, 100, 50, 10, 10, 20, 20) has the corners (0.1, 0.2) and
\* (0.3, 0.4).
C9_UVExample ==
    (lastOp.op = "drawTexture" /\ cache.width = 100 /\ cache.height = 50)
    => /\ FracEq(LastQuad[1].u, 1, 10) /\ FracEq(LastQuad[1].v, 2, 10)
       /\ FracEq(LastQuad[6].u, 3, 10) /\ FracEq(LastQuad[6].v, 4, 10)

\* C9 as amended: the corners are (cx / width, cy / height) and
\* ((cx + cw) / width, (cy + ch) / height) of the cache's snapshot, on all
\* six vertices in the order top-left, bottom-left, top-right, top-right,
\* bottom-left, bottom-right; at 100x50 with the crop 10, 10, 20, 20 they
\* are (0.1, 0.2) and (0.3, 0.6).
C9_UVCorners ==
    lastOp.op = "drawTexture" =>
        \A a \in DrawArgs :
            LET q  == LastQuad
                L(i) == FracEq(q[i].u, a.cx, cache.width)
                R(i) == FracEq(q[i].u, a.cx + a.cw, cache.width)
                T(i) == FracEq(q[i].v, a.cy, cache.height)
                B(i) == FracEq(q[i].v, a.cy + a.ch, cache.height)
            IN  /\ L(1) /\ T(1)
                /\ L(2) /\ B(2)
                /\ R(3) /\ T(3)
                /\ R(4) /\ T(4)
                /\ L(5) /\ B(5)
                /\ R(6) /\ B(6)
                /\ (cache.width = 100 /\ cache.height = 50)
                      => /\ FracEq(q[1].u, 1, 10) /\ FracEq(q[1].v, 2, 10)
                         /\ FracEq(q[6].u, 3, 10) /\ FracEq(q[6].v, 6, 10)

\* drawTexture has pushed the example's quad under the 100x50 snapshot.
C9_Witness ==
    /\ lastOp.op = "drawTexture"
    /\ cache.width = 100
    /\ cache.height = 50
    /\ LastQuad[6].u = Div(30, 100)

\* C10: when destroyTexture returns, the texture has the fields of a new
\* Texture: 1x1, not loaded, not missing, no handle, not bound, unit 0, no
\* canvas image, crop scales 1.
C10_DestroyResets ==
    lastOp.op = "destroyTexture" =>
        /\ tex[OpTex].width = 1
        /\ tex[OpTex].height = 1
        /\ tex[OpTex].loaded = FALSE
        /\ tex[OpTex].missing = FALSE
        /\ tex[OpTex].glTex = Null
        /\ tex[OpTex].glBound = FALSE
        /\ tex[OpTex].glUnit = 0
        /\ tex[OpTex].canvasImg = "null"
        /\ FracEq(tex[OpTex].canvasCropScaleX, 1, 1)
        /\ FracEq(tex[OpTex].canvasCropScaleY, 1, 1)

\* A loaded texture destroyed while it was the last one bound: its handle
\* was made and is deleted, and it was the factory's return handle.
C10_Witness ==
    /\ lastOp.op = "destroyTexture"
    /\ cfg.gl
    /\ OpTex \in gpu.made
    /\ OpTex \notin gpu.live
    /\ factory.glReturnTex = Null
    /\ cache.pointer = 2

\* C11: destroyTexture with a GPU context on a texture that is already
\* empty (glTex = null, glUnit = 0) leaves the handle bound on every unit,
\* the active unit, the factory's glReturnTex / glReturnUnit and every
\* other texture as they were.
C11_DestroyEmptyNoOp ==
    [][ ( /\ lastOp'.op = "destroyTexture"
          /\ cfg.gl
          /\ tex[lastOp'.tex].glTex = Null
          /\ tex[lastOp'.tex].glUnit = 0 )
        => /\ gpu'.units = gpu.units
           /\ gpu'.active = gpu.active
           /\ factory' = factory
           /\ \A t \in AllTex \ {lastOp'.tex} : tex'[t] = tex[t] ]_vars

\* C12: after destroyTexture of a texture that has a GPU handle, no unit
\* is bound to the deleted handle, the factory's glReturnTex is not the
\* deleted handle, and the active unit is the one active before the call.
C12_NoDeletedHandleLeft ==
    [][ ( /\ lastOp'.op = "destroyTexture"
          /\ cfg.gl
          /\ tex[lastOp'.tex].glTex # Null )
        => LET h == tex[lastOp'.tex].glTex
           IN  /\ h \notin gpu'.live
               /\ \A u \in Units : gpu'.units[u] # h
               /\ factory'.glReturnTex # h
               /\ gpu'.active = gpu.active ]_vars

\* Two textures applied and the first one destroyed: the factory's return
\* handle is the second's, the first's handle is deleted.
C12_Witness ==
    /\ lastOp.op = "destroyTexture"
    /\ cfg.gl
    /\ OpTex \in gpu.made \ gpu.live
    /\ cache.pointer = 2
    /\ factory.glReturnTex \in Tex \ {OpTex}
    /\ gpu.active = 1

\* C13: with the WebGL backend every texture unit has a handle bound that
\* is not null and not deleted, in every state.
C13_EveryUnitBound ==
    cfg.gl => \A u \in Units :
                  gpu.units[u] # Null /\ gpu.units[u] \in gpu.live

\* C14: a texture that has been destroyed and has no callback pending has
\* no undeleted GPU handle and has its empty defaults.
C14_DestroyedStaysEmpty ==
    \A t \in LifeTex :
        (img[t].dead /\ img[t].st = "idle")
        => /\ t \notin gpu.live
           /\ tex[t].loaded = FALSE
           /\ tex[t].glTex = Null
           /\ tex[t].width = 1
           /\ tex[t].height = 1

\* C15: a texture created from a source whose fetch fails, and never
\* destroyed, is returned not loaded and not missing; its error handler
\* runs once, sets missing and restarts the load with the placeholder; the
\* texture eventually is loaded, still missing, with the placeholder's
\* natural size; missing is never reset.
C15_MissingPlaceholder ==
    /\ [](\A t \in LifeTex :
              /\ (lastOp.op = "createTexture" /\ OpTex = t)
                    => (~tex[t].loaded /\ ~tex[t].missing)
              /\ img[t].errs <= 1
              /\ tex[t].missing <=> (img[t].errs = 1)
              /\ (lastOp.op = "onerror" /\ OpTex = t)
                    => (img[t].src = "missing" /\ img[t].st = "loading"))
    /\ [][\A t \in LifeTex : tex[t].missing => tex'[t].missing]_vars
    /\ \A t \in LifeTex :
          (img[t].src = "bad")
             ~> ( /\ tex[t].loaded /\ tex[t].missing
                  /\ tex[t].width = MissingImage.naturalWidth
                  /\ tex[t].height = MissingImage.naturalHeight )

\* With the WebGL backend the placeholder has loaded for a failed source.
C15_Witness ==
    /\ cfg.gl
    /\ lastOp.op = "onload"
    /\ img[OpTex].errs = 1
    /\ tex[OpTex].loaded
    /\ tex[OpTex].missing
    /\ tex[OpTex].width = 8
    /\ tex[OpTex].glTex = OpTex

\* C16: a load completion on the WebGL backend leaves the handle bound on
\* every unit and the active unit as they were; it creates one handle,
\* stores it in the texture, sets the texture's width and height and
\* loaded = true, and changes nothing else of the textures, the factory,
\* the cache and the vertex buffer.
C16_LoadRestoresBindings ==
    [][ (lastOp'.op = "onload" /\ cfg.gl)
        => LET t == lastOp'.tex
               h == tex'[t].glTex
           IN  /\ gpu'.units = gpu.units
               /\ gpu'.active = gpu.active
               /\ h \notin gpu.made
               /\ gpu'.live = gpu.live \cup {h}
               /\ tex'[t] = [tex[t] EXCEPT !.glTex = h,
                                           !.width = tex'[t].width,
                                           !.height = tex'[t].height,
                                           !.loaded = TRUE]
               /\ \A u \in AllTex \ {t} : tex'[u] = tex[u]
               /\ UNCHANGED <<factory, cache, vb>> ]_vars

\* A load has completed while another user texture was bound on the active
\* unit.
C16_Witness ==
    /\ cfg.gl
    /\ lastOp.op = "onload"
    /\ tex[OpTex].loaded
    /\ OpTex \in gpu.live
    /\ gpu.units[gpu.active] \in LifeTex \ {OpTex}
    /\ factory.glReturnTex = gpu.units[gpu.active]

\* The positions of the texture samples in a shader source.
SamplesOf(f) == {k \in 1..Len(f) : f[k][1] = "texture2D"}

\* C17: parseShader of the fragment template for N >= 1 textures puts N in
\* place of the array size marker and, in place of the texel marker, a
\* chain of exactly N arms that sample the indices 0..N-1 in order, every
\* arm but the first after an else, every arm but the last under an
\* equality test on its index, the last arm under none; no marker is left.
C17_ShaderArms ==
    (program.done /\ program.src = MainFrag)
    => LET f == program.frag
           N == program.max
           IsSample(x) == x[1] = "texture2D"
           arms == SelectSeq(f, IsSample)
       IN  /\ \A k \in 1..Len(f) : f[k] \notin {MaxMarker, TexelMarker}
           /\ f[1] = Text /\ f[2] = Num(N) /\ f[3] = Text
           /\ f[Len(f)] = Text
           /\ Len(arms) = N
           /\ \A i \in 1..N : arms[i] = Sample(i - 1)
           /\ Cardinality({k \in 1..Len(f) : f[k][1] = "if"}) = N - 1
           /\ Cardinality({k \in 1..Len(f) : f[k] = Else}) = N - 1
           /\ \A k \in SamplesOf(f) :
                 LET i == f[k][2]
                 IN  IF i < N - 1
                     THEN /\ f[k - 1] = If(i)
                          /\ i > 0 => f[k - 2] = Else
                     ELSE /\ f[k - 1][1] # "if"
                          /\ i > 0 => f[k - 1] = Else
           /\ N = 3 => Cardinality(SamplesOf(f)) = 3

\* The fragment template parsed for three textures: three arms, two tests.
C17_Witness ==
    /\ program.done
    /\ program.src = MainFrag
    /\ program.max = 3
    /\ Len(program.frag) = 11
    /\ program.frag[5] = Sample(0)
    /\ program.frag[10] = Sample(2)

\* C18: with the WebGL backend a texture, the cache's placeholders
\* included, has glBound = true exactly when the cache's bound-texture
\* array records it at index glUnit.
C18_BoundIffRecorded ==
    cfg.gl => \A t \in AllTex :
                  tex[t].glBound <=> (cache.boundTextures[tex[t].glUnit] = t)

\* C19: no two distinct textures, placeholders included, have
\* glBound = true with the same glUnit.
C19_OneTexturePerUnit ==
    \A t, u \in AllTex :
        (t # u /\ tex[t].glBound /\ tex[u].glBound)
        => tex[t].glUnit # tex[u].glUnit

\* C20: the cache pointer stays in 0..maxUnits; applyTexture binds no
\* texture to a unit index maxUnits or more; applyTexture of a texture that
\* is not bound, called with the pointer at maxUnits, unbinds every entry
\* of the bound array and restarts from unit 0, and with the pointer less
\* than maxUnits it binds the texture to the unit at the pointer.
C20_PointerInRange ==
    /\ [](/\ cache.pointer \in 0..cfg.maxTextures
          /\ gpu.active \in Units
          /\ factory.glReturnUnit \in Units
          /\ \A t \in AllTex : tex[t].glUnit \in Units)
    /\ [][ (lastOp'.op = "applyTexture" /\ ~tex[lastOp'.tex].glBound)
           => LET t == lastOp'.tex
              IN  IF cache.pointer = cfg.maxTextures
                  THEN /\ tex'[t].glUnit = 0
                       /\ gpu'.active = 0
                       /\ gpu'.units[0] = tex[t].glTex
                       /\ cache'.pointer = 1
                       /\ \A u \in Units :
                             cache.boundTextures[u] # t
                                => ~tex'[cache.boundTextures[u]].glBound
                  ELSE /\ tex'[t].glUnit = cache.pointer
                       /\ gpu'.active = cache.pointer
                       /\ gpu'.units[cache.pointer] = tex[t].glTex
                       /\ cache'.pointer = cache.pointer + 1
                       /\ lastOp'.draws = 0 ]_vars

\* A texture has been bound to the last unit of two, and the next apply
\* of a third texture has restarted from unit 0.
C20_Witness ==
    /\ lastOp.op = "applyTexture"
    /\ cfg.maxTextures = 2
    /\ lastOp.draws = 1
    /\ lastOp.draw.pointer = 2
    /\ cache.pointer = 1
    /\ tex[OpTex].glUnit = 0
    /\ gpu.units[1] \in Tex \ {OpTex}
    /\ ~tex[gpu.units[1]].glBound

\* C21: an applyTexture of a texture that is not bound gives it the unit at
\* the pointer (0 right after a cache flush or the construction, then 1,
\* 2, ...), and a bound texture keeps glBound = true and its unit through
\* every step that is neither a cache flush nor its own destruction:
\* applies of other textures, cache hits, buffer-full flushes, onPostDraw.
C21_FirstAppliedFirstAssigned ==
    [][ LET cacheFlush == lastOp'.op = "applyTexture" /\ lastOp'.draws >= 1
            miss == lastOp'.op = "applyTexture" /\ ~tex[lastOp'.tex].glBound
        IN  /\ miss => /\ tex'[lastOp'.tex].glBound
                        /\ tex'[lastOp'.tex].glUnit =
                              (IF cacheFlush THEN 0 ELSE cache.pointer)
                        /\ cache'.pointer = tex'[lastOp'.tex].glUnit + 1
            /\ ~miss => cache'.pointer = cache.pointer
            /\ ~cacheFlush =>
                  \A t \in AllTex :
                      ( /\ tex[t].glBound
                        /\ ~(lastOp'.op = "destroyTexture" /\ lastOp'.tex = t) )
                      => /\ tex'[t].glBound
                         /\ tex'[t].glUnit = tex[t].glUnit
                         /\ tex'[t].glTex = tex[t].glTex ]_vars

\* Two user textures on units 0 and 1 have kept their units through the
\* draw call of onPostDraw.
C21_Witness ==
    /\ lastOp.op = "onPostDraw"
    /\ lastOp.draws = 1
    /\ lastOp.draw.count > 0
    /\ cache.pointer = 2
    /\ cache.boundTextures[0] \in Tex
    /\ cache.boundTextures[1] \in Tex
    /\ \A u \in 0..1 : /\ tex[cache.boundTextures[u]].glBound
                         /\ tex[cache.boundTextures[u]].glUnit = u

\* C22, the part the code keeps: once the renderer is constructed its texture
\* unit count is min(glMaxTextures clamped to [1, 32], max(host limit, 1)),
\* so it is in [1, 32] and not above a host limit of at least 1, and the
\* vertex capacity is glMaxVerts clamped to [6, 65536].
C22_EffectiveLimits ==
    opts.stage = "renderer" =>
        LET configured == getDefault(opts.glMaxTextures, DEFAULT_MAX_TEXTURES)
            verts == getDefault(opts.glMaxVerts, DEFAULT_MAX_VERTS)
            clamped == IF configured < 1 THEN 1
                       ELSE IF configured > 32 THEN 32 ELSE configured
        IN  /\ cfg.maxTextures = Min(clamped, Max(opts.host, 1))
            /\ cfg.maxTextures \in 1..32
            /\ opts.host >= 1 => cfg.maxTextures <= opts.host
            /\ cfg.maxVerts = (IF verts < 6 THEN 6
                               ELSE IF verts > 65536 THEN 65536 ELSE verts)
            /\ program.max = cfg.maxTextures

\* C22 as stated: moreover the effective vertex capacity is a multiple of 6.
C22_CapacityMultipleOfSix ==
    /\ C22_EffectiveLimits
    /\ opts.stage = "renderer" => cfg.maxVerts % 6 = 0

\* The host offers fewer units than configured, and the capacity option is
\* over the maximum.
C22_Witness ==
    /\ opts.stage = "renderer"
    /\ opts.glMaxTextures = Given(MAX_TEXTURES + 1)
    /\ opts.host = 3
    /\ cfg.maxTextures = 3
    /\ opts.glMaxVerts = Given(MAX_VERTS + 1)
    /\ cfg.maxVerts = MAX_VERTS

\* The loop's own state: what a refused call must leave alone.
LoopState(l) == <<l.starting, l.running, l.stopping, l.pc, l.starts, l.stops>>

\* The start handlers run: once per served start, when the loop is not
\* running and the document is complete, and running becomes true.
StartHandlers ==
    [][ loop'.starts # loop.starts =>
           /\ loop'.starts = loop.starts + 1
           /\ loop.starting /\ ~loop.running /\ loop.ready
           /\ loop'.running /\ ~loop'.starting ]_vars

\* A pending start is served once the loop is not running and the document
\* is complete.
StartServed ==
    \A n \in 0..MaxSessions :
        (loop.starting /\ loop.starts = n) ~> (loop.running /\ loop.starts = n + 1)

\* C23 as stated: start() returns false and changes no loop state when a
\* start is pending or the loop is running with no stop pending, and
\* returns true otherwise.
C23_StartReturns ==
    [][ loop'.op = "start" =>
           IF loop.starting \/ (loop.running /\ ~loop.stopping)
           THEN ~loop'.ret /\ LoopState(loop') = LoopState(loop)
           ELSE loop'.ret ]_vars

\* C23 on a compatible host and on any host: start() returns false and
\* changes no loop state when a start is pending, when the loop is running
\* with no stop pending, or when the host is not compatible; otherwise it
\* returns true and a start is pending.  The start handlers then run exactly
\* once, when the loop is not running and the document is complete, and
\* running becomes true.
C23_StartOnCompatibleHost ==
    /\ [][ loop'.op = "start" =>
             IF loop.starting \/ (loop.running /\ ~loop.stopping) \/ ~loop.compatible
             THEN ~loop'.ret /\ LoopState(loop') = LoopState(loop)
             ELSE loop'.ret /\ loop'.starting ]_vars
    /\ StartHandlers
    /\ StartServed

\* start() is refused on a running loop whose start handlers have run once.
C23_Witness ==
    /\ loop.op = "start" /\ ~loop.ret
    /\ loop.running /\ ~loop.stopping /\ ~loop.starting
    /\ loop.starts = 1

\* C24: stop() returns true exactly when the loop is running with no stop
\* pending, and false otherwise without changing the loop's state; after it
\* returns true at most one more update begins, then the stop handlers run
\* exactly once and running becomes false.
C24_StopThenHandlers ==
    /\ [][ loop'.op = "stop" =>
             /\ loop'.ret = (loop.running /\ ~loop.stopping)
             /\ loop'.ret => loop'.stopping /\ loop'.running
             /\ ~loop'.ret => LoopState(loop') = LoopState(loop) ]_vars
    /\ [](loop.stopping => loop.running /\ loop.since <= 1)
    /\ [][ (loop'.stops # loop.stops \/ (loop.running /\ ~loop'.running)) =>
             /\ loop'.stops = loop.stops + 1
             /\ loop.stopping /\ loop.running
             /\ ~loop'.running /\ ~loop'.stopping ]_vars
    /\ \A n \in 0..MaxSessions :
          (loop.stopping /\ loop.stops = n) ~> (~loop.running /\ loop.stops = n + 1)

\* stop() was called between two steps: one more update ran, then the stop
\* handlers.
C24_Witness ==
    /\ loop.stops = 1 /\ loop.starts = 1
    /\ ~loop.running /\ ~loop.stopping /\ loop.pc = "off"
    /\ loop.since = 1

\* C25: restart() on a running loop with no start or stop pending returns
\* true; the game then stops and starts again: the stop handlers of the old
\* session run before the start handlers of the new one, and running is
\* true again.
C25_RestartStopsThenStarts ==
    /\ [][ (loop'.op = "restart" /\ loop.running /\ ~loop.starting /\ ~loop.stopping) =>
             loop'.ret /\ loop'.stopping /\ loop'.starting /\ loop'.by = "restart" ]_vars
    /\ [](loop.starts - loop.stops = (IF loop.running THEN 1 ELSE 0))
    /\ [][ loop'.starts # loop.starts => loop.stops = loop.starts ]_vars
    /\ \A n \in 1..MaxSessions :
          (loop.op = "restart" /\ loop.ret /\ loop.starts = n /\ loop.stops = n - 1)
          ~> (~loop.running /\ loop.starting /\ loop.starts = n /\ loop.stops = n)
    /\ \A n \in 1..MaxSessions :
          (~loop.running /\ loop.starting /\ loop.by = "restart"
             /\ loop.starts = n /\ loop.stops = n)
          ~> (loop.running /\ loop.starts = n + 1 /\ loop.stops = n)

\* The session that restart() began is running.
C25_Witness ==
    /\ loop.by = "restart"
    /\ loop.running /\ ~loop.starting
    /\ loop.starts = 2 /\ loop.stops = 1

\* The callback ev of the scene under key.
Ev(ev, key) == <<ev, key>>

\* The configured main scene, if the configuration has one.
MainConfigured(m) == \E i \in DOMAIN m.config.scenes : m.config.scenes[i] = m.config.main

\* C26: for every user scene instance onCreate is the first callback and
\* onDestroy the last, and onTick and onDraw come only while it is active
\* (after its onEnter, before any later onExit); the configured main scene
\* gets onCreate from the start handlers and onEnter in the first step,
\* before its first onTick.
C26_SceneCallbackOrder ==
    /\ [](\A k \in SceneKeys : sm.life[k] # "bad")
    /\ [][ (loop'.starts # loop.starts /\ MainConfigured(sm)) =>
             LET log == sm'.log
                 main == sm.config.main
             IN  /\ Len(log) >= 3
                 /\ \E i \in 1..(Len(log) - 2) :
                       /\ log[i] = Ev("onCreate", main)
                       /\ \A j \in (i + 1)..(Len(log) - 2) : log[j][2] # main
                 /\ log[Len(log) - 1] = Ev("onEnter", main)
                 /\ log[Len(log)] = Ev("onTick", main)
                 /\ \A j \in 1..(Len(log) - 2) : log[j][1] \in {"onCreate", "onDestroy"}
                 /\ sm'.keyActive = main ]_vars

\* The second session has begun: the main scene, destroyed by the stop
\* handlers, is created again, entered and ticked in the first step.
C26_Witness ==
    /\ loop.starts = 2 /\ loop.pc = "inTick"
    /\ sm.config = [main |-> "b", scenes |-> <<"a", "b">>]
    /\ sm.log = <<Ev("onCreate", "a"), Ev("onCreate", "b"),
                 Ev("onEnter", "b"), Ev("onTick", "b")>>
    /\ sm.life["b"] = "entered"

\* The callbacks of user scenes among evs (the default scene's do nothing).
UserEvs(evs) == SelectSeq(evs, LAMBDA e : e[2] # DefaultKey)

\* The scene manager's own state.
SceneState(m) == <<m.keyActive, m.keyNext, m.changing, m.scenes>>

C30_DestroyActiveOrPending ==
    [][ ( /\ sm'.op \in {"destroy", "create"}
          /\ sm'.key \in sm.scenes
          /\ sm'.key = sm.keyActive \/ (sm.changing /\ sm'.key = sm.keyNext) ) =>
           /\ sm'.ret
           /\ sm'.log = (IF sm'.op = "destroy"
                         THEN <<Ev("onDestroy", sm'.key)>>
                         ELSE <<Ev("onDestroy", sm'.key), Ev("onCreate", sm'.key)>>)
           /\ sm'.keyActive = DefaultKey
           /\ sm'.keyNext = DefaultKey
           /\ ~sm'.changing
           /\ sm'.scenes = (IF sm'.op = "destroy" THEN sm.scenes \ {sm'.key}
                            ELSE sm.scenes) ]_vars

\* The active scene a was destroyed while a change to b was pending: b still
\* exists, the change is cancelled, and a had no onExit.
C30_Witness ==
    /\ sm.op = "destroy" /\ sm.ret /\ sm.key = "a"
    /\ sm.was.keyActive = "a" /\ sm.was.changing /\ sm.was.keyNext = "b"
    /\ sm.log = <<Ev("onDestroy", "a")>>
    /\ "b" \in sm.scenes
    /\ sm.keyActive = DefaultKey /\ ~sm.changing

\* The number of times e is in the sequence evs.
Count(evs, e) == Cardinality({i \in DOMAIN evs : evs[i] = e})

\* C27: when the stop handlers run, every scene that exists receives
\* onDestroy exactly once (and nothing else is delivered); afterwards the
\* scene manager has no user scene, the default scene is active with no
\* change pending, the texture and JSON managers hold no key and every
\* loader list is empty.
C27_StopEmptiesManagers ==
    [][ loop'.stops # loop.stops =>
          /\ \A k \in sm.scenes : Count(sm'.log, Ev("onDestroy", k)) = 1
          /\ Len(sm'.log) = Cardinality(sm.scenes)
          /\ sm'.scenes = {}
          /\ sm'.keyActive = DefaultKey /\ ~sm'.changing
          /\ \A k \in TextureKeys : assets'.textures[k] = NoTex
          /\ DOMAIN assets'.json = {}
          /\ \A l \in DOMAIN assets'.lists : assets'.lists[l] = <<>>
          /\ DOMAIN assets'.lists = DOMAIN assets.lists ]_vars

\* The stop handlers have just destroyed two scenes; a texture and a JSON
\* file had been loaded into a list.
C27_Witness ==
    /\ loop.stops = 1 /\ loop.pc = "off" /\ ~loop.running
    /\ Len(sm.log) = 2
    /\ sm.scenes = {} /\ sm.keyActive = DefaultKey
    /\ "l" \in DOMAIN assets.lists /\ assets.lists["l"] = <<>>
    /\ assets.textures["t"] = NoTex /\ Created(1)
    /\ DOMAIN assets.json = {}

\* The matrix of the projection of a resolution, as the program holds it.
Projection(width, height) ==
    [w |-> Float32Array_set(Double(2, width)), h |-> Float32Array_set(Double(-2, height)),
     x |-> Float32Array_set(Double(-1, 1)), y |-> Float32Array_set(Double(1, 1))]

\* C28: at every draw call of VertBuffer.flush the matrix the program holds
\* is the single-precision matrix of the projection of the most recent
\* resize (translate (-1, 1), scale (2/width, -2/height)); the matrix is
\* sent only in a flush that finds the dirty flag set, which only a
\* projection change sets, and at most once.
C28_MatrixSentWhenDirty ==
    /\ [](lastOp.draws >= 1 => lastOp.draw.mvp = Projection(mvp.width, mvp.height))
    /\ [][ /\ lastOp'.uploads <= 1
           /\ lastOp'.uploads = 1 =>
                 /\ mvp.dirty /\ ~mvp'.dirty
                 /\ lastOp'.draws >= 1
                 /\ mvp'.uniform = Projection(mvp.width, mvp.height)
           /\ (~mvp.dirty \/ lastOp'.draws = 0) =>
                 lastOp'.uploads = 0 /\ mvp'.uniform = mvp.uniform
           /\ (mvp'.dirty /\ ~mvp.dirty) => lastOp'.op = "resize"
           /\ (mvp.dirty /\ lastOp'.draws >= 1) => lastOp'.uploads = 1 ]_vars

\* The flush of onPostDraw found the projection of 800x600 not sent yet: it
\* has sent the matrix (2/800 rounded to single precision) and drawn the
\* queued quad with it.
C28_Witness ==
    /\ lastOp.op = "onPostDraw" /\ lastOp.uploads = 1
    /\ lastOp.draw.count = 6
    /\ mvp.width = 800 /\ mvp.height = 600
    /\ lastOp.draw.mvp = Projection(800, 600)
    /\ mvp.value.w = <<2, 800, 1>>
    /\ ~mvp.dirty
\* C31: in every reachable state the active key names a scene of the
\* dictionary, a pending change's next key names one too, and so no method
\* of the manager calls a callback on a value that is no scene.
C31_KeysNameScenes ==
    /\ sm.keyActive \in sm.scenes \cup {DefaultKey}
    /\ sm.changing => sm.keyNext \in sm.scenes \cup {DefaultKey}
    /\ ~sm.threw

\* The assets of a list that are loaded, in the current state.
LoadedIn(list) == {i \in DOMAIN list : Asset_loaded(assets, Cur, list[i])}

\* C32: progress(listKey) returns loaded assets / list length, a value in
\* [0, 1], and 1 for an empty or unknown list; when it returns 1 the list is
\* left empty, otherwise as it was; complete(listKey) is true exactly when
\* progress would return 1; neither throws.
C32_ProgressFraction ==
    [][ (assets'.call.n # assets.call.n /\ assets'.call.op \in {"progress", "complete"}) =>
          LET k == assets'.call.listKey
              list == IF k \in DOMAIN assets.lists THEN assets.lists[k] ELSE <<>>
              count == Cardinality(LoadedIn(list))
              full == count = Len(list)
              ret == assets'.call.ret
          IN  /\ ~assets'.call.threw
              /\ assets'.call.op = "progress" =>
                    /\ 0 <= ret[1] /\ ret[1] <= ret[2]
                    /\ IF full THEN ret = One ELSE FracEq(ret, count, Len(list))
              /\ assets'.call.op = "complete" => (ret = One <=> full)
              /\ k \in DOMAIN assets'.lists
              /\ assets'.lists[k] = IF full THEN <<>> ELSE list ]_vars

\* C33: after a load into list "l", complete("l") eventually returns true.
C33_CompleteEventually ==
    (assets.call.op \in {"loadTexture", "loadJsonFile"} /\ assets.call.listKey = "l")
        ~> (assets.call.op = "complete" /\ assets.call.listKey = "l"
            /\ assets.call.ret = One)

\* What a JSON request that failed leaves.
Failed(file) == file.loaded /\ file.missing /\ file.data = "{}"

\* C35: when the request of a JSON file is done, a status outside 200-299
\* or a body that does not parse leaves missing = true, loaded = true and
\* data {}, a success leaves loaded = true and missing = false; loaded is
\* set to true once per request, when it is done.
C35_JsonLoadOutcome ==
    [][ \A f \in DOMAIN assets.files :
          /\ (assets.files[f].st = "pending" /\ assets'.files[f].st # "pending") =>
                /\ assets'.files[f].st \in {"http", "corrupt"} => Failed(assets'.files[f])
                /\ assets'.files[f].st = "ok" =>
                      assets'.files[f].loaded /\ ~assets'.files[f].missing
                /\ assets'.files[f].sets = 1
          /\ assets.files[f].st # "pending" => assets'.files[f].sets = 1
          /\ assets'.files[f].st = "pending" => assets'.files[f].sets = 0 ]_vars

\* A JSON file whose body did not parse, still held by its manager.
C35_Witness ==
    \E f \in DOMAIN assets.files :
        /\ assets.files[f].st = "corrupt" /\ Failed(assets.files[f])
        /\ "j" \in DOMAIN assets.json /\ assets.json["j"] = f

\* C36: with the WebGL backend every user texture that has glBound = true
\* has its own handle bound on the GPU texture unit glUnit.
C36_BoundTextureOnItsUnit ==
    cfg.gl => \A t \in LifeTex :
                  tex[t].glBound => gpu.units[tex[t].glUnit] = tex[t].glTex

\* C39: with the WebGL backend the GPU's active texture unit is the
\* factory's glReturnUnit and the handle bound on it is the factory's
\* glReturnTex, from the construction of the cache on.
C39_ReturnRegisterMirrorsGPU ==
    cfg.gl => /\ gpu.active = factory.glReturnUnit
              /\ gpu.units[gpu.active] = factory.glReturnTex

\* The texture bound last, on unit 1, has been destroyed: unit 1 is active
\* with no handle bound and the factory's return handle is null.
C39_Witness ==
    /\ cfg.gl
    /\ lastOp.op = "destroyTexture"
    /\ OpTex \in gpu.made \ gpu.live
    /\ factory.glReturnUnit = 1 /\ gpu.active = 1
    /\ factory.glReturnTex = Null /\ gpu.units[1] = Null
    /\ gpu.units[0] \in LifeTex

\* C37: the runs of the start handlers and of the stop handlers alternate,
\* beginning with the start handlers, and at most one chain of
\* animation-frame steps exists.
C37_OneSessionAtATime ==
    /\ loop.starts - loop.stops \in {0, 1}
    /\ loop.running <=> loop.starts = loop.stops + 1
    /\ loop.chains <= 1
    /\ loop.chains = 1 <=> loop.pc # "off"

\* The second session of the loop is in its first step: the first was
\* stopped, its stop handlers ran, and a start() was served after them.
C37_Witness ==
    /\ loop.starts = 2 /\ loop.stops = 1
    /\ loop.running /\ loop.chains = 1
    /\ loop.by = "start"
    /\ loop.pc = "inTick"

\* C38: stop() called while a start is pending and the loop is not running
\* returns false and leaves the loop as it was; the start handlers then run
\* and the loop becomes running.
C38_StopKeepsPendingStart ==
    /\ [][ (loop'.op = "stop" /\ loop.starting /\ ~loop.running)
            => /\ ~loop'.ret
               /\ loop' = [loop EXCEPT !.op = "stop", !.ret = FALSE] ]_vars
    /\ \A n \in 0..MaxSessions :
          (loop.op = "stop" /\ loop.starting /\ ~loop.running /\ loop.starts = n)
              ~> (loop.running /\ loop.starts = n + 1)

\* stop() has just returned false while the first start was pending, the
\* document not yet complete.
C38_Witness ==
    /\ loop.op = "stop" /\ ~loop.ret
    /\ loop.starting /\ ~loop.running /\ ~loop.ready
    /\ loop.starts = 0

\* The loop is inside a tick: between onPreTick and the end of the step.
InTick == loop.pc \in {"inTick", "inDraw"}

\* C34: during a tick down(code) is true iff the key was pressed at this
\* tick's onPreTick and not at the previous tick's, up(code) iff pressed at
\* the previous and not at this one, held(code) iff pressed at this one; down
\* and up are never both true, down implies held, a key found pressed at
\* two or more consecutive ticks does not report down, and a press and
\* release between two ticks is not reported.
C34_KeyEdges ==
    InTick =>
        \A c \in Codes :
            LET down == KeyManager_down(keyboard, c)
                held == KeyManager_held(keyboard, c)
                up   == KeyManager_up(keyboard, c)
            IN  /\ down <=> (keyboard.now[c] /\ ~keyboard.last[c])
                /\ up <=> (keyboard.last[c] /\ ~keyboard.now[c])
                /\ held <=> keyboard.now[c]
                /\ ~(down /\ up)
                /\ down => held
                /\ keyboard.run[c] >= 2 => ~down
                /\ ({"keydown", "keyup"} \subseteq keyboard.seen[c]
                     /\ ~keyboard.last[c] /\ ~keyboard.now[c])
                       => ~down /\ ~held /\ ~up

\* A tick at which KeyA is found pressed for the second time in a row,
\* held and not down, and KeyB was pressed and released since the
\* previous tick, at which it was not pressed.
C34_Witness ==
    /\ InTick
    /\ keyboard.run["KeyA"] = 2
    /\ KeyManager_held(keyboard, "KeyA") /\ ~KeyManager_down(keyboard, "KeyA")
    /\ keyboard.seen["KeyB"] = {"keydown", "keyup"}
    /\ ~keyboard.last["KeyB"] /\ ~keyboard.now["KeyB"]
    /\ ~KeyManager_held(keyboard, "KeyB")

====
